---- MODULE Spec2Model ----
(***************************************************************************)
(* Package compilation orchestrator of sui-move-wasm (src/lib.rs):         *)
(* compile_impl (manifest resolution, named-address binding, package group *)
(* assembly, compiler driver, usage-based dependency pruning, module       *)
(* ordering, package digest) and compute_manifest_digest.                  *)
(*                                                                         *)
(* Strings are tuples of one-character strings, byte strings are tuples of *)
(* 0..255, Option<T> is a tuple of length 0 (None) or 1 (Some), Vec<T> is  *)
(* a sequence, BTreeMap<K, V> is a function with a finite domain, HashSet  *)
(* is a set.                                                               *)
(***************************************************************************)
EXTENDS Integers, Sequences, FiniteSets, TLC

(***************************************************************************)
(* Option<T>                                                               *)
(***************************************************************************)
None == <<>>

Some(v) == <<v>>

IsSome(o) == Len(o) = 1

Unwrap(o) == o[1]

(***************************************************************************)
(* BTreeMap                                                                *)
(***************************************************************************)
EmptyMap == <<>>

\* BTreeMap::insert: the new value replaces an earlier one for the same key.
MapInsert(m, k, v) == [x \in (DOMAIN m) \cup {k} |-> IF x = k THEN v ELSE m[x]]

\* BTreeMap::get
MapGet(m, k) == IF k \in DOMAIN m THEN Some(m[k]) ELSE None

(***************************************************************************)
(* Characters and strings                                                  *)
(***************************************************************************)
\* The printable ASCII characters in code order, from 32 (space) to 126
\* (code 96 is left out: no string of the model holds it).
Ascii ==
  << " ", "!", "\"", "#", "$", "%", "&", "'", "(", ")", "*", "+", ",", "-",
     ".", "/", "0", "1", "2", "3", "4", "5", "6", "7", "8", "9", ":", ";",
     "<", "=", ">", "?", "@", "A", "B", "C", "D", "E", "F", "G", "H", "I",
     "J", "K", "L", "M", "N", "O", "P", "Q", "R", "S", "T", "U", "V", "W",
     "X", "Y", "Z", "[", "\\", "]", "^", "_", "", "a", "b", "c", "d", "e",
     "f", "g", "h", "i", "j", "k", "l", "m", "n", "o", "p", "q", "r", "s",
     "t", "u", "v", "w", "x", "y", "z", "{", "|", "}", "~" >>

\* The byte value of each character.
CodeOf ==
  [c \in {Ascii[i] : i \in 1..Len(Ascii)} |->
     31 + (CHOOSE i \in 1..Len(Ascii) : Ascii[i] = c)]

\* The byte value of a character.
Ord(c) == IF c = "\n" THEN 10 ELSE CodeOf[c]

\* The first position at which two tuples differ, 0 when one is a prefix of
\* the other.
FirstDifference(a, b) ==
  LET differing == {i \in 1..Len(a) : i <= Len(b) /\ a[i] # b[i]}
  IN  IF differing = {} THEN 0
      ELSE CHOOSE i \in differing : \A j \in differing : i <= j

\* Lexicographic order of two tuples of integers (slice / array Ord): the
\* first differing element decides, a proper prefix is less.
LexLess(a, b) ==
  IF FirstDifference(a, b) = 0 THEN Len(a) < Len(b)
  ELSE a[FirstDifference(a, b)] < b[FirstDifference(a, b)]

\* str::as_bytes
AsBytes(s) == [i \in 1..Len(s) |-> Ord(s[i])]

\* Ord of two strings: byte-wise lexicographic.
StrLess(s, t) ==
  IF FirstDifference(s, t) = 0 THEN Len(s) < Len(t)
  ELSE Ord(s[FirstDifference(s, t)]) < Ord(t[FirstDifference(s, t)])

\* str::starts_with
StartsWith(s, p) == Len(p) <= Len(s) /\ SubSeq(s, 1, Len(p)) = p

\* str::ends_with
EndsWith(s, p) ==
  Len(p) <= Len(s) /\ SubSeq(s, Len(s) - Len(p) + 1, Len(s)) = p

IsWhitespace(c) == c \in {" ", "\t", "\n", "\r"}

\* str::trim
RECURSIVE Trim(_)
Trim(s) ==
  IF Len(s) = 0 THEN s
  ELSE IF IsWhitespace(s[1]) THEN Trim(Tail(s))
  ELSE IF IsWhitespace(s[Len(s)]) THEN Trim(SubSeq(s, 1, Len(s) - 1))
  ELSE s

\* str::trim_start_matches: strips the prefix as often as it occurs.
RECURSIVE TrimStartMatches(_, _)
TrimStartMatches(s, p) ==
  IF Len(p) > 0 /\ StartsWith(s, p)
    THEN TrimStartMatches(SubSeq(s, Len(p) + 1, Len(s)), p)
    ELSE s

(***************************************************************************)
(* Hexadecimal and account addresses                                       *)
(***************************************************************************)
LowerHex ==
  <<"0", "1", "2", "3", "4", "5", "6", "7", "8", "9", "a", "b", "c", "d", "e", "f">>

UpperHex ==
  <<"0", "1", "2", "3", "4", "5", "6", "7", "8", "9", "A", "B", "C", "D", "E", "F">>

IsHexDigit(c) == \E i \in 1..16 : LowerHex[i] = c \/ UpperHex[i] = c

HexVal(c) == (CHOOSE i \in 1..16 : LowerHex[i] = c \/ UpperHex[i] = c) - 1

\* hex::decode of an even-length string: Some(bytes), or None on a character
\* that is no hexadecimal digit.
HexDecode(s) ==
  IF \A i \in 1..Len(s) : IsHexDigit(s[i])
    THEN Some([i \in 1..(Len(s) \div 2) |->
                 16 * HexVal(s[2 * i - 1]) + HexVal(s[2 * i])])
    ELSE None

\* hex::encode: lower case, two digits a byte.
HexEncode(bytes) ==
  [i \in 1..(2 * Len(bytes)) |->
     IF i % 2 = 1 THEN LowerHex[(bytes[(i + 1) \div 2] \div 16) + 1]
                  ELSE LowerHex[(bytes[i \div 2] % 16) + 1]]

\* AccountAddress::LENGTH, the width of [u8; 32].
AddressLength == 32

\* A parse that puts the zero nibble of an odd-length text on the right.
parse_hex_address_right_padded(addr) ==
  LET addr_clean == TrimStartMatches(Trim(addr), <<"0", "x">>)
      addr_str_normalized ==
        IF Len(addr_clean) % 2 # 0 THEN addr_clean \o <<"0">> ELSE addr_clean
      decoded == HexDecode(addr_str_normalized)
  IN  IF Len(addr_clean) = 0 THEN None
      ELSE IF ~IsSome(decoded) THEN None
      ELSE IF Len(Unwrap(decoded)) > AddressLength THEN None
      ELSE LET bytes == Unwrap(decoded)
               start == AddressLength - Len(bytes)
           IN  Some([i \in 1..AddressLength |->
                       IF i <= start THEN 0 ELSE bytes[i - start]])

\* fn parse_hex_address_to_bytes(addr: &str) -> Option<[u8; 32]>
parse_hex_address_to_bytes(addr) ==
  LET addr_clean == TrimStartMatches(Trim(addr), <<"0", "x">>)
      addr_str_normalized ==
        IF Len(addr_clean) % 2 # 0 THEN <<"0">> \o addr_clean ELSE addr_clean
      decoded == HexDecode(addr_str_normalized)
  IN  IF Len(addr_clean) = 0 THEN None
      ELSE IF ~IsSome(decoded) THEN None
      ELSE IF Len(Unwrap(decoded)) > AddressLength THEN None
      ELSE LET bytes == Unwrap(decoded)
               start == AddressLength - Len(bytes)
           IN  Some([i \in 1..AddressLength |->
                       IF i <= start THEN 0 ELSE bytes[i - start]])

\* AccountAddress::to_canonical_string(true): 0x and 64 lower-case digits.
to_canonical_string(a) == <<"0", "x">> \o HexEncode(a)

\* Ord of [u8; 32] and of AccountAddress: ascending by byte value.
AddrLess(a, b) == LexLess(a, b)

(***************************************************************************)
(* Input data: JSON texts, file contents, package groups                   *)
(***************************************************************************)
\* A JSON text is what serde_json::from_str makes of it at the type asked
\* for: Some(value), or None when it does not parse at that type.  The empty
\* text is told apart because setup_vfs asks dependencies_json.is_empty().
JsonText(v) == [empty |-> FALSE, value |-> Some(v)]

MalformedJson == [empty |-> FALSE, value |-> None]

EmptyText == [empty |-> TRUE, value |-> None]

\* serde_json::from_str
from_str(text) == text.value

\* A file's text is what its two readers make of it: toml::from_str gives
\* Some(SourceManifest) or fails (None), and the compiler finds the module it
\* declares (None: the text declares no module).
ManifestFile(m) == [toml |-> Some(m), module |-> None]

SourceFile(m) == [toml |-> None, module |-> Some(m)]

GarbageFile == [toml |-> None, module |-> None]

\* struct SourceManifest, the fields compile_impl reads.
SourceManifest(name, edition, published_at, addresses) ==
  [package |-> [name |-> name, edition |-> edition, published_at |-> published_at],
   addresses |-> addresses]

\* The source of one module: the address it is declared at (a named address
\* or a numerical literal), its name, the modules it uses in the order of
\* its handles, the bytes of its body, and how the external services take
\* it: "ok", "no_compiler" (Compiler::from_package_paths fails), "build_err"
\* (Compiler::build returns Err), "diags" (the build reports diagnostics),
\* "unverifiable" (the Move bytecode verifier rejects it), "sui_unverifiable"
\* (the Sui verifier rejects it).
ModuleSource(addr, name, uses, body, quirk) ==
  [addr |-> addr, name |-> name, uses |-> uses, body |-> body, quirk |-> quirk]

\* struct PackageGroup
PackageGroup(name, files, edition, address_mapping, published_id_for_output) ==
  [name |-> name, files |-> files, edition |-> edition,
   address_mapping |-> address_mapping,
   published_id_for_output |-> published_id_for_output]

\* struct CompileOptions
CompileOptions(silence_warnings, test_mode, lint_flag) ==
  [silence_warnings |-> silence_warnings, test_mode |-> test_mode,
   lint_flag |-> lint_flag]

\* CompileOptions::default()
DefaultOptions == CompileOptions(FALSE, FALSE, None)

(***************************************************************************)
(* String constants of the program and of the inputs                       *)
(***************************************************************************)
s_root == <<"r", "o", "o", "t">>

s_std == <<"s", "t", "d">>

s_sui == <<"s", "u", "i">>

s_Move_toml == <<"M", "o", "v", "e", ".", "t", "o", "m", "l">>

s_dot_move == <<".", "m", "o", "v", "e">>

s_tests_dir == <<"t", "e", "s", "t", "s", "/">>

s_legacy == <<"l", "e", "g", "a", "c", "y">>

s_2024 == <<"2", "0", "2", "4">>

s_2024_alpha == <<"2", "0", "2", "4", ".", "a", "l", "p", "h", "a">>

s_2024_beta == <<"2", "0", "2", "4", ".", "b", "e", "t", "a">>

\* fn parse_edition(edition_str: &str) -> Edition
parse_edition(edition_str) ==
  IF edition_str = s_legacy THEN "LEGACY"
  ELSE IF edition_str = s_2024 \/ edition_str = s_2024_alpha THEN "E2024_ALPHA"
  ELSE IF edition_str = s_2024_beta THEN "E2024_BETA"
  ELSE "LEGACY"

(***************************************************************************)
(* The inputs the model draws from: paths, address strings, packages       *)
(***************************************************************************)
p_Move_toml == <<"M", "o", "v", "e", ".", "t", "o", "m", "l">>

p_r == <<"s", "o", "u", "r", "c", "e", "s", "/", "r", ".", "m", "o", "v", "e">>

p_a == <<"s", "o", "u", "r", "c", "e", "s", "/", "a", ".", "m", "o", "v", "e">>

p_b == <<"t", "e", "s", "t", "s", "/", "b", ".", "m", "o", "v", "e">>

p_A_m == <<"d", "e", "p", "s", "/", "A", "/", "m", ".", "m", "o", "v", "e">>

p_B_toml == <<"d", "e", "p", "s", "/", "B", "/", "M", "o", "v", "e", ".", "t", "o", "m", "l">>

p_B_k == <<"d", "e", "p", "s", "/", "B", "/", "k", ".", "m", "o", "v", "e">>

p_C_n == <<"d", "e", "p", "s", "/", "C", "/", "n", ".", "m", "o", "v", "e">>

p_D_toml == <<"d", "e", "p", "s", "/", "D", "/", "M", "o", "v", "e", ".", "t", "o", "m", "l">>

p_D_q == <<"d", "e", "p", "s", "/", "D", "/", "q", ".", "m", "o", "v", "e">>

p_E_toml == <<"d", "e", "p", "s", "/", "E", "/", "M", "o", "v", "e", ".", "t", "o", "m", "l">>

p_E_x == <<"d", "e", "p", "s", "/", "E", "/", "x", ".", "m", "o", "v", "e">>

p_F_toml == <<"d", "e", "p", "s", "/", "F", "/", "M", "o", "v", "e", ".", "t", "o", "m", "l">>

p_F_y == <<"d", "e", "p", "s", "/", "F", "/", "y", ".", "m", "o", "v", "e">>

p_P_p == <<"d", "e", "p", "s", "/", "P", "/", "p", ".", "m", "o", "v", "e">>

p_U_u == <<"d", "e", "p", "s", "/", "U", "/", "u", ".", "m", "o", "v", "e">>

p_R_z == <<"d", "e", "p", "s", "/", "R", "/", "z", ".", "m", "o", "v", "e">>

p_G_toml == <<"d", "e", "p", "s", "/", "G", "/", "M", "o", "v", "e", ".", "t", "o", "m", "l">>

p_G_g == <<"d", "e", "p", "s", "/", "G", "/", "g", ".", "m", "o", "v", "e">>

p_M_toml == <<"d", "e", "p", "s", "/", "M", "/", "M", "o", "v", "e", ".", "t", "o", "m", "l">>

p_M_w == <<"d", "e", "p", "s", "/", "M", "/", "w", ".", "m", "o", "v", "e">>

p_T_t == <<"t", "e", "s", "t", "s", "/", "t", ".", "m", "o", "v", "e">>

p_T_u == <<"u", "/", "u", ".", "m", "o", "v", "e">>

h_0 == <<"0", "x", "0">>

h_1 == <<"0", "x", "1">>

h_2 == <<"0", "x", "2">>

h_3 == <<"0", "x", "3">>

h_4 == <<"0", "x", "4">>

h_5 == <<"0", "x", "5">>

h_6 == <<"0", "x", "6">>

h_7 == <<"0", "x", "7">>

h_8 == <<"0", "x", "8">>

h_9 == <<"0", "x", "9">>

h_zz == <<"0", "x", "z", "z">>

h_g1 == <<"g", "1">>

h_xyz == <<"x", "y", "z">>

\* Symbols: package names, named addresses and module names.
n_R == <<"R">>

n_A == <<"A">>

n_B == <<"B">>

n_C == <<"C">>

n_D == <<"D">>

n_E == <<"E">>

n_F == <<"F">>

n_G == <<"G">>

n_M == <<"M">>

n_T == <<"T">>

n_P == <<"P">>

n_Q == <<"Q">>

n_U == <<"U">>

n_Z == <<"Z">>

n_bad == <<"b", "a", "d">>

\* A map from the pairs <<key, value>> given.
MapOf(pairs) == [k \in {e[1] : e \in pairs} |-> (CHOOSE e \in pairs : e[1] = k)[2]]

\* Root manifest: package R, no edition, addresses R = 0x0 and an entry
\* whose value is no hexadecimal string.
RootManifest ==
  ManifestFile(SourceManifest(n_R, None, None,
    Some(MapOf({<<n_R, Some(h_0)>>, <<n_bad, Some(h_xyz)>>}))))

\* A root package with one module R::r using the modules given.
RootUsing(uses) ==
  MapOf({<<p_Move_toml, RootManifest>>,
         <<p_r, SourceFile(ModuleSource(n_R, <<"r">>, uses, <<7>>, "ok"))>>})

\* A root package without a manifest, its module at the literal address 0x0.
RootBare(uses, quirk) ==
  MapOf({<<p_r, SourceFile(ModuleSource(h_0, <<"r">>, uses, <<7>>, quirk))>>})

\* A root package whose manifest does not parse.
RootBadManifest ==
  MapOf({<<p_Move_toml, GarbageFile>>,
         <<p_r, SourceFile(ModuleSource(h_0, <<"r">>, <<>>, <<7>>, "ok"))>>})

\* A root package of two modules that use each other.
RootCycle ==
  MapOf({<<p_a, SourceFile(ModuleSource(h_0, <<"a">>, << <<h_0, <<"b">>>> >>, <<5>>, "ok"))>>,
         <<p_b, SourceFile(ModuleSource(h_0, <<"b">>, << <<h_0, <<"a">>>> >>, <<6>>, "ok"))>>})

\* A root package of two modules, the first using the second.
RootTwo ==
  MapOf({<<p_a, SourceFile(ModuleSource(h_0, <<"a">>, << <<h_0, <<"b">>>> >>, <<5>>, "ok"))>>,
         <<p_b, SourceFile(ModuleSource(h_0, <<"b">>, <<>>, <<6>>, "ok"))>>})

\* Package A: address mapping A = 0x1, no output id: published at 0x1.
PkgA ==
  PackageGroup(n_A,
    MapOf({<<p_A_m, SourceFile(ModuleSource(n_A, <<"m">>, <<>>, <<1>>, "ok"))>>}),
    None, Some(MapOf({<<n_A, h_1>>})), None)

\* Package B: no address mapping; its manifest gives B = 0x3, published-at
\* 0x9 and edition 2024.beta.
PkgB ==
  PackageGroup(n_B,
    MapOf({<<p_B_toml, ManifestFile(SourceManifest(n_B, Some(s_2024_beta), Some(h_9),
                         Some(MapOf({<<n_B, Some(h_3)>>}))))>>,
           <<p_B_k, SourceFile(ModuleSource(n_B, <<"k">>, <<>>, <<2>>, "ok"))>>}),
    None, None, None)

\* Package C: compiled at 0x2, output id 0x1 (the output address of A); its
\* module uses B::k.
PkgC ==
  PackageGroup(n_C,
    MapOf({<<p_C_n, SourceFile(ModuleSource(n_C, <<"n">>, << <<n_B, <<"k">>>> >>, <<3>>, "ok"))>>}),
    None, Some(MapOf({<<n_C, h_2>>, <<n_B, h_3>>})), Some(h_1))

\* Package D: compiled at 0x1 (the compilation address of A), output id 0x8;
\* its mapping has an entry whose value is no hexadecimal string, and it has
\* a manifest that does not parse.
PkgD ==
  PackageGroup(n_D,
    MapOf({<<p_D_toml, GarbageFile>>,
           <<p_D_q, SourceFile(ModuleSource(n_D, <<"q">>, <<>>, <<4>>, "ok"))>>}),
    None, Some(MapOf({<<n_D, h_1>>, <<n_Z, h_g1>>})), Some(h_8))

\* Package E: a source dependency.  Its manifest does not parse, it gives an
\* edition and an output id that is no hexadecimal string; its module, at
\* the literal address 0x5, uses the module k at 0x3.
PkgE ==
  PackageGroup(n_E,
    MapOf({<<p_E_toml, GarbageFile>>,
           <<p_E_x, SourceFile(ModuleSource(h_5, <<"x">>, << <<h_3, <<"k">>>> >>, <<8>>, "ok"))>>}),
    Some(s_2024_beta), None, Some(h_zz))

\* Package F: a source dependency whose manifest does not parse and that
\* gives nothing else.
PkgF ==
  PackageGroup(n_F,
    MapOf({<<p_F_toml, GarbageFile>>,
           <<p_F_y, SourceFile(ModuleSource(h_6, <<"y">>, <<>>, <<9>>, "ok"))>>}),
    None, None, None)

\* Package P: compiled at 0x4, no output id; its mapping also binds A (to
\* 0x9, not the address package A gives), R (to 0x9, not the address the
\* root manifest gives) and std (to 0x9, not the fallback); its module uses
\* the module x at 0x5, a module of a source dependency.
PkgP ==
  PackageGroup(n_P,
    MapOf({<<p_P_p, SourceFile(ModuleSource(n_P, <<"p">>, << <<h_5, <<"x">>>> >>, <<10>>, "ok"))>>}),
    None, Some(MapOf({<<n_P, h_4>>, <<n_A, h_9>>, <<n_R, h_9>>, <<s_std, h_9>>})), None)

\* Package G: no address mapping; its manifest gives its own name the zero
\* address and published-at 0x9.
PkgG ==
  PackageGroup(n_G,
    MapOf({<<p_G_toml, ManifestFile(SourceManifest(n_G, None, Some(h_9),
                         Some(MapOf({<<n_G, Some(h_0)>>}))))>>,
           <<p_G_g, SourceFile(ModuleSource(n_G, <<"g">>, <<>>, <<13>>, "ok"))>>}),
    None, None, None)

\* Package M: an address mapping Q = 0x4, without an entry for its own name,
\* and a manifest that says more: M = 0x7, Z = 0x8, edition 2024.beta,
\* published-at 0x9.
PkgM ==
  PackageGroup(n_M,
    MapOf({<<p_M_toml, ManifestFile(SourceManifest(n_M, Some(s_2024_beta), Some(h_9),
                         Some(MapOf({<<n_M, Some(h_7)>>, <<n_Z, Some(h_8)>>}))))>>,
           <<p_M_w, SourceFile(ModuleSource(n_Q, <<"w">>, <<>>, <<14>>, "ok"))>>}),
    None, Some(MapOf({<<n_Q, h_4>>})), None)

\* Package T: compiled at 0x7; one of its two source files is under tests/
\* and comes first in byte order.
PkgT ==
  PackageGroup(n_T,
    MapOf({<<p_T_t, SourceFile(ModuleSource(n_T, <<"t">>, <<>>, <<15>>, "ok"))>>,
           <<p_T_u, SourceFile(ModuleSource(n_T, <<"u">>, <<>>, <<16>>, "ok"))>>}),
    None, Some(MapOf({<<n_T, h_7>>})), None)

\* Package U: compiled at 0x6; its module passes the generic verifier and
\* fails the Sui verifier.
PkgU ==
  PackageGroup(n_U,
    MapOf({<<p_U_u, SourceFile(ModuleSource(n_U, <<"u">>, <<>>, <<11>>, "sui_unverifiable"))>>}),
    None, Some(MapOf({<<n_U, h_6>>})), None)

\* Package R: a source dependency that has the name the root manifest
\* declares; its module is at the literal address 0x6.
PkgR ==
  PackageGroup(n_R,
    MapOf({<<p_R_z, SourceFile(ModuleSource(h_6, <<"z">>, <<>>, <<12>>, "ok"))>>}),
    None, None, None)

(***************************************************************************)
(* Result<T, E> and sequences                                              *)
(***************************************************************************)
Ok(v) == [ok |-> TRUE, v |-> v]

Err(e) == [ok |-> FALSE, e |-> e]

\* The elements of a sequence.
Range(q) == {q[i] : i \in 1..Len(q)}

\* Vec::contains
Contains(q, x) == \E i \in 1..Len(q) : q[i] = x

\* The elements of the finite set S in ascending order of less(_, _), a
\* strict total order on S (slice::sort of distinct keys).
SortSet(S, less(_, _)) ==
  [i \in 1..Cardinality(S) |->
     CHOOSE x \in S : Cardinality({y \in S : less(y, x)}) = i - 1]

\* BTreeMap<String, _>::keys(): the keys in ascending byte order.
Keys(m) == SortSet(DOMAIN m, StrLess)

\* Iterator::filter on a sequence.
Filter(q, keep(_)) ==
  LET F[i \in 0..Len(q)] ==
        IF i = 0 THEN <<>>
        ELSE IF keep(q[i]) THEN Append(F[i - 1], q[i]) ELSE F[i - 1]
  IN  F[Len(q)]

(***************************************************************************)
(* setup_vfs                                                               *)
(***************************************************************************)
\* The in-memory file system after the writes of a file map: create_file
\* replaces a file that is there.
WriteFiles(fs, file_map) ==
  [path \in (DOMAIN fs) \cup (DOMAIN file_map) |->
     IF path \in DOMAIN file_map THEN file_map[path] ELSE fs[path]]

RECURSIVE WritePackages(_, _)
WritePackages(fs, packages) ==
  IF Len(packages) = 0 THEN fs
  ELSE WritePackages(WriteFiles(fs, packages[1].files), Tail(packages))

\* A setup_vfs that takes a dependencies text it cannot parse for an empty
\* array.
setup_vfs_lenient(fj, dj) ==
  IF ~IsSome(from_str(fj)) THEN Err("Failed to parse files JSON")
  ELSE Ok([root |-> WritePackages(WriteFiles(EmptyMap, Unwrap(from_str(fj))),
                                  IF IsSome(from_str(dj)) THEN Unwrap(from_str(dj))
                                  ELSE <<>>),
           files |-> Unwrap(from_str(fj)),
           dep_packages |-> IF IsSome(from_str(dj)) THEN Unwrap(from_str(dj))
                            ELSE <<>>])

\* fn setup_vfs(files_json, dependencies_json)
\*   -> Result<(VfsPath, BTreeMap<String, String>, Vec<PackageGroup>), String>
setup_vfs(fj, dj) ==
  LET files_r == from_str(fj)
      deps_r == IF dj.empty THEN Some(<<>>) ELSE from_str(dj)
  IN  IF ~IsSome(files_r) THEN Err("Failed to parse files JSON")
      ELSE IF ~IsSome(deps_r) THEN Err("Failed to parse dependencies JSON")
      ELSE Ok([root |-> WritePackages(WriteFiles(EmptyMap, Unwrap(files_r)),
                                      Unwrap(deps_r)),
               files |-> Unwrap(files_r),
               dep_packages |-> Unwrap(deps_r)])

\* Parse options early: a missing or unparsable options text gives the
\* default options.
parse_options(oj) ==
  IF IsSome(oj) /\ IsSome(from_str(Unwrap(oj)))
    THEN Unwrap(from_str(Unwrap(oj)))
    ELSE DefaultOptions

(***************************************************************************)
(* Manifest resolution and named-address binding                           *)
(***************************************************************************)
\* The named addresses an address table gives: the entries that have a
\* value that parses.
RECURSIVE AddressesOfTable(_, _)
AddressesOfTable(table, names) ==
  IF Len(names) = 0 THEN EmptyMap
  ELSE LET rest == AddressesOfTable(table, Tail(names))
           addr_opt == table[names[1]]
           bytes == IF IsSome(addr_opt)
                      THEN parse_hex_address_to_bytes(Unwrap(addr_opt))
                      ELSE None
       IN  IF IsSome(bytes) THEN MapInsert(rest, names[1], Unwrap(bytes))
           ELSE rest

\* The named addresses an addressMapping gives: the entries whose value
\* parses.
RECURSIVE AddressesOfMapping(_, _)
AddressesOfMapping(addr_map, names) ==
  IF Len(names) = 0 THEN EmptyMap
  ELSE LET rest == AddressesOfMapping(addr_map, Tail(names))
           bytes == parse_hex_address_to_bytes(addr_map[names[1]])
       IN  IF IsSome(bytes) THEN MapInsert(rest, names[1], Unwrap(bytes))
           ELSE rest

\* A root manifest reader that never reads the manifest and takes the 2024
\* edition for the default.
RootManifestBindingsModern(file_map) ==
  [root_package_name |-> s_root,
   root_edition |-> "E2024_BETA",
   root_named_address_map |-> EmptyMap]

\* The root package's manifest, as compile_impl reads it: the package name,
\* the edition and the address table; the defaults when there is no
\* Move.toml or it does not parse.
RootManifestBindings(file_map) ==
  LET content == MapGet(file_map, s_Move_toml)
      parsed == IF IsSome(content) THEN Unwrap(content).toml ELSE None
  IN  IF IsSome(parsed)
        THEN LET manifest == Unwrap(parsed)
             IN  [root_package_name |-> manifest.package.name,
                  root_edition |->
                    IF IsSome(manifest.package.edition)
                      THEN parse_edition(Unwrap(manifest.package.edition))
                      ELSE "LEGACY",
                  root_named_address_map |->
                    IF IsSome(manifest.addresses)
                      THEN AddressesOfTable(Unwrap(manifest.addresses),
                                            Keys(Unwrap(manifest.addresses)))
                      ELSE EmptyMap]
        ELSE [root_package_name |-> s_root,
              root_edition |-> "LEGACY",
              root_named_address_map |-> EmptyMap]

\* Sort to mimic CLI: sources/* before tests/*, then lexical.
TargetLess(pa, pb) ==
  LET wa == IF StartsWith(pa, s_tests_dir) THEN 1 ELSE 0
      wb == IF StartsWith(pb, s_tests_dir) THEN 1 ELSE 0
  IN  LexLess(<<wa>> \o AsBytes(pa), <<wb>> \o AsBytes(pb))

\* The source files of a file map: *.move, never a Move.toml.
IsSourcePath(name) == ~EndsWith(name, s_Move_toml) /\ EndsWith(name, s_dot_move)

\* root_targets: the root's source files that are no dependency's file,
\* sorted.
RootTargets(file_map, packages) ==
  LET dependency_paths == UNION {DOMAIN packages[i].files : i \in 1..Len(packages)}
  IN  SortSet({name \in DOMAIN file_map :
                 IsSourcePath(name) /\ name \notin dependency_paths},
              TargetLess)

\* Prefer address mapping supplied from JS: every entry that parses is a
\* named address, the edition is Legacy and the compilation address is the
\* group's own name looked up in the mapping.
MappingBindings(name, addr_map) ==
  [named_address_map |-> AddressesOfMapping(addr_map, Keys(addr_map)),
   edition |-> "LEGACY",
   fallback_dep_id |-> MapGet(AddressesOfMapping(addr_map, Keys(addr_map)), name)]

\* An optional address text parsed; None when absent or unparsable.
ParseOptionalAddress(text_opt) ==
  IF IsSome(text_opt) THEN parse_hex_address_to_bytes(Unwrap(text_opt)) ELSE None

\* The group's own name in the manifest's address table, parsed.
OwnAddress(name, manifest) ==
  IF IsSome(manifest.addresses)
       /\ IsSome(MapGet(Unwrap(manifest.addresses), name))
    THEN ParseOptionalAddress(Unwrap(MapGet(Unwrap(manifest.addresses), name)))
    ELSE None

\* Fallback: parse Move.toml if mapping not provided.  The compilation
\* address is the group's own address when the table gives one
\* (found_address_id), else published-at.
ManifestBindings(name, manifest) ==
  [named_address_map |->
     IF IsSome(manifest.addresses)
       THEN AddressesOfTable(Unwrap(manifest.addresses),
                             Keys(Unwrap(manifest.addresses)))
       ELSE EmptyMap,
   edition |->
     IF IsSome(manifest.package.edition)
       THEN parse_edition(Unwrap(manifest.package.edition))
       ELSE "LEGACY",
   fallback_dep_id |->
     IF IsSome(OwnAddress(name, manifest)) THEN OwnAddress(name, manifest)
     ELSE ParseOptionalAddress(manifest.package.published_at)]

\* The first Move.toml of the group, parsed; None when there is none or it
\* does not parse.
GroupManifest(pkg_group) ==
  LET toml_keys == Filter(Keys(pkg_group.files), LAMBDA k : EndsWith(k, s_Move_toml))
  IN  IF Len(toml_keys) > 0 THEN pkg_group.files[toml_keys[1]].toml ELSE None

\* A resolution that reads the manifest first and the address mapping only
\* when there is no manifest that parses.
ResolvedBindingsManifestFirst(pkg_group) ==
  IF IsSome(GroupManifest(pkg_group))
    THEN ManifestBindings(pkg_group.name, Unwrap(GroupManifest(pkg_group)))
  ELSE IF IsSome(pkg_group.address_mapping)
    THEN MappingBindings(pkg_group.name, Unwrap(pkg_group.address_mapping))
  ELSE [named_address_map |-> EmptyMap, edition |-> "LEGACY", fallback_dep_id |-> None]

\* The bindings before the group's overrides: from the address mapping, else
\* from the manifest, else the defaults.
ResolvedBindings(pkg_group) ==
  IF IsSome(pkg_group.address_mapping)
    THEN MappingBindings(pkg_group.name, Unwrap(pkg_group.address_mapping))
  ELSE IF IsSome(GroupManifest(pkg_group))
    THEN ManifestBindings(pkg_group.name, Unwrap(GroupManifest(pkg_group)))
  ELSE [named_address_map |-> EmptyMap, edition |-> "LEGACY", fallback_dep_id |-> None]

\* The group's overrides applied to what was resolved.
OverrideBindings(pkg_group, resolved, given_output) ==
  [named_address_map |-> resolved.named_address_map,
   \* Use explicitly provided edition if available.
   edition |-> IF IsSome(pkg_group.edition)
                 THEN parse_edition(Unwrap(pkg_group.edition))
                 ELSE resolved.edition,
   fallback_dep_id |-> resolved.fallback_dep_id,
   \* Priority: publishedIdForOutput > addressMapping/Move.toml derived address.
   dep_id_for_output |-> IF IsSome(given_output) THEN given_output
                         ELSE resolved.fallback_dep_id]

\* What one dependency group resolves to (the head of the loop body): its
\* named-address map, its edition, its compilation address (fallback_dep_id)
\* and its output id (dep_id_for_output).
DependencyBindings(pkg_group) ==
  OverrideBindings(pkg_group, ResolvedBindings(pkg_group),
                   ParseOptionalAddress(pkg_group.published_id_for_output))

\* struct PackagePaths with its PackageConfig (flavor is Sui throughout).
PackagePaths(name, is_dependency, edition, paths, named_address_map) ==
  [name |-> Some(<<name, [is_dependency |-> is_dependency, edition |-> edition,
                          flavor |-> "Sui"]>>),
   paths |-> paths,
   named_address_map |-> named_address_map]

\* dep_files: the group's source files in the order of files.keys().
DepFiles(pkg_group) == Filter(Keys(pkg_group.files), IsSourcePath)

\* A merge in which the dependency's binding replaces the one already there.
MergeAddressesLastWins(root_map, named_address_map) ==
  [name \in (DOMAIN root_map) \cup (DOMAIN named_address_map) |->
     IF name \in DOMAIN named_address_map THEN named_address_map[name]
     ELSE root_map[name]]

\* Merge dependency addresses into root map: a name the root map binds keeps
\* its binding.
MergeAddresses(root_map, named_address_map) ==
  [name \in (DOMAIN root_map) \cup (DOMAIN named_address_map) |->
     IF name \in DOMAIN root_map THEN root_map[name] ELSE named_address_map[name]]

\* A tracking that maps every compilation address to itself.
TrackOutputToItself(c2o, b) ==
  IF IsSome(b.fallback_dep_id)
    THEN MapInsert(c2o, Unwrap(b.fallback_dep_id), Unwrap(b.fallback_dep_id))
    ELSE c2o

\* Track the mapping from compilation address to output address:
\* BTreeMap::insert replaces what an earlier group recorded for the address.
TrackOutput(c2o, b) ==
  IF IsSome(b.fallback_dep_id) /\ IsSome(b.dep_id_for_output)
    THEN MapInsert(c2o, Unwrap(b.fallback_dep_id), Unwrap(b.dep_id_for_output))
  ELSE IF IsSome(b.fallback_dep_id)
    THEN MapInsert(c2o, Unwrap(b.fallback_dep_id), Unwrap(b.fallback_dep_id))
  ELSE c2o

\* dependency_ids: the output id is pushed unless it is there already.
PushDependencyId(ids, b) ==
  IF IsSome(b.dep_id_for_output) /\ ~Contains(ids, Unwrap(b.dep_id_for_output))
    THEN Append(ids, Unwrap(b.dep_id_for_output))
    ELSE ids

\* FALLBACK: ensure std and sui are always defined.
WithFrameworkFallbacks(root_map) ==
  LET with_std ==
        IF s_std \in DOMAIN root_map THEN root_map
        ELSE MapInsert(root_map, s_std, Unwrap(parse_hex_address_to_bytes(<<"0", "x", "1">>)))
  IN  IF s_sui \in DOMAIN with_std THEN with_std
      ELSE MapInsert(with_std, s_sui, Unwrap(parse_hex_address_to_bytes(<<"0", "x", "2">>)))

(***************************************************************************)
(* The external compiler and verifiers, as far as compile_impl sees them   *)
(***************************************************************************)
\* An address in a module's source: a numerical literal, or a named address
\* looked up in the named-address map of the module's package.
ResolveAddress(named_address_map, a) ==
  IF a[1] \in {"0", "1", "2", "3", "4", "5", "6", "7", "8", "9"}
    THEN parse_hex_address_to_bytes(a)
    ELSE MapGet(named_address_map, a)

\* The module sources of the targets, each with its package: the targets in
\* order, the paths of each in order, read from the file system.
RECURSIVE SourcesOfPaths(_, _, _)
SourcesOfPaths(fs, target, paths) ==
  IF Len(paths) = 0 THEN <<>>
  ELSE LET content == fs[paths[1]]
       IN  (IF IsSome(content.module)
              THEN << [target |-> target, source |-> Unwrap(content.module)] >>
              ELSE <<>>)
           \o SourcesOfPaths(fs, target, Tail(paths))

RECURSIVE SourcesOfTargets(_, _)
SourcesOfTargets(fs, targets) ==
  IF Len(targets) = 0 THEN <<>>
  ELSE SourcesOfPaths(fs, targets[1], targets[1].paths)
       \o SourcesOfTargets(fs, Tail(targets))

\* Whether every address of a module's source resolves.
Resolves(ts) ==
  /\ IsSome(ResolveAddress(ts.target.named_address_map, ts.source.addr))
  /\ \A i \in 1..Len(ts.source.uses) :
       IsSome(ResolveAddress(ts.target.named_address_map, ts.source.uses[i][1]))

\* ModuleId: <<address, name>>.
ModuleIdOf(ts) ==
  <<Unwrap(ResolveAddress(ts.target.named_address_map, ts.source.addr)), ts.source.name>>

\* AnnotatedCompiledModule, the parts compile_impl reads: the package name,
\* the module's own id, its immediate dependencies (never itself) and what
\* decides its bytes and its verification.
CompiledUnit(ts) ==
  LET self_id == ModuleIdOf(ts)
      used == [i \in 1..Len(ts.source.uses) |->
                 <<Unwrap(ResolveAddress(ts.target.named_address_map,
                                         ts.source.uses[i][1])),
                   ts.source.uses[i][2]>>]
  IN  [package_name |-> Some(Unwrap(ts.target.name)[1]),
       self_id |-> self_id,
       immediate_dependencies |-> Filter(used, LAMBDA id : id # self_id),
       body |-> ts.source.body,
       quirk |-> ts.source.quirk]

\* Compiler::from_package_paths(Some(root), all_targets, Vec::new())
from_package_paths(fs, targets) ==
  LET sources == SourcesOfTargets(fs, targets)
  IN  IF \E i \in 1..Len(sources) : sources[i].source.quirk = "no_compiler"
        THEN Err("no_compiler")
        ELSE Ok([fs |-> fs, targets |-> targets, sources |-> sources])

\* Compiler::build: Err(e), Ok(Err(diags)) or Ok(Ok(units)).  The build
\* reports diagnostics when an address does not resolve, when two modules
\* have the same id, when a used module is not among the compiled ones, or
\* when a source is ill-formed.
build(compiler) ==
  LET sources == compiler.sources
      n == Len(sources)
      resolved == \A i \in 1..n : Resolves(sources[i])
      compiled == [i \in 1..n |-> CompiledUnit(sources[i])]
      ids == {compiled[i].self_id : i \in 1..n}
  IN  IF \E i \in 1..n : sources[i].source.quirk = "build_err"
        THEN Err("build_err")
      ELSE IF \E i \in 1..n : sources[i].source.quirk = "diags"
        THEN Ok(Err("error: ill-formed module"))
      ELSE IF ~resolved
        THEN Ok(Err("error: unbound address"))
      ELSE IF Cardinality(ids) # n
        THEN Ok(Err("error: duplicate module"))
      ELSE IF \E i \in 1..n :
                \E j \in 1..Len(compiled[i].immediate_dependencies) :
                  compiled[i].immediate_dependencies[j] \notin ids
        THEN Ok(Err("error: unbound module"))
      ELSE Ok(Ok(compiled))

\* A verification that never runs the Sui verifier.
verify_bytecode_generic(compiled, test_mode) ==
  IF \E i \in 1..Len(compiled) : compiled[i].quirk = "unverifiable"
    THEN Err("Module Verification Failure")
    ELSE Ok(<<>>)

\* fn verify_bytecode(units, fn_info, test_mode) -> Result<(), String>: the
\* first unit a verifier rejects ends it; the Sui verifier is skipped in
\* test mode.
RECURSIVE verify_bytecode(_, _)
verify_bytecode(compiled, test_mode) ==
  IF Len(compiled) = 0 THEN Ok(<<>>)
  ELSE IF compiled[1].quirk = "unverifiable"
    THEN Err("Module Verification Failure")
  ELSE IF ~test_mode /\ compiled[1].quirk = "sui_unverifiable"
    THEN Err("Sui Module Verification Failure")
  ELSE verify_bytecode(Tail(compiled), test_mode)

(***************************************************************************)
(* Usage-based dependency pruning (tree shaking)                           *)
(***************************************************************************)
\* A test of ownership that every unit passes.
IsAnyUnit(unit, root_name) == TRUE

\* A test of ownership that knows the "root" sentinel only.
IsRootSentinel(unit, root_name) == unit.package_name = Some(s_root)

\* Whether a unit belongs to the root package.
IsRootUnit(unit, root_name) ==
  LET pkg_name == IF IsSome(unit.package_name) THEN Unwrap(unit.package_name) ELSE <<>>
  IN  pkg_name = s_root \/ pkg_name = root_name \/ ~IsSome(unit.package_name)

\* The state of the two traversals.
PrunerState(kept, visited_compilation, wl_published, visited_source, wl_source) ==
  [kept_output_addresses |-> kept,
   visited_compilation_addresses |-> visited_compilation,
   worklist_published_addresses |-> wl_published,
   visited_source_units |-> visited_source,
   worklist_source_units |-> wl_source]

\* An import of a known compilation address: its output address is kept,
\* and when that is new, the compilation address is queued for the closure
\* unless it was visited.
KeepPublished(st, addr, c2o) ==
  IF addr \in DOMAIN c2o
    THEN LET output_addr == c2o[addr]
         IN  IF output_addr \notin st.kept_output_addresses
               THEN IF addr \notin st.visited_compilation_addresses
                      THEN [st EXCEPT
                              !.kept_output_addresses = @ \cup {output_addr},
                              !.visited_compilation_addresses = @ \cup {addr},
                              !.worklist_published_addresses = Append(@, addr)]
                      ELSE [st EXCEPT !.kept_output_addresses = @ \cup {output_addr}]
               ELSE st
    ELSE st

\* An import of any other address that is not followed.
QueueNothing(st, dep_id, compiled) == st

\* An import of any other address that is queued whether or not its id was
\* visited.
RECURSIVE QueueSourceUnitsAgain(_, _, _)
QueueSourceUnitsAgain(st, dep_id, compiled) ==
  IF Len(compiled) = 0 THEN st
  ELSE LET valid_unit == compiled[1]
           next ==
             IF valid_unit.self_id = dep_id
               THEN [st EXCEPT !.visited_source_units = @ \cup {dep_id},
                               !.worklist_source_units = Append(@, valid_unit)]
               ELSE st
       IN  QueueSourceUnitsAgain(next, dep_id, Tail(compiled))

\* An import of any other address: the units of that id are queued for the
\* root-rooted traversal, once.
RECURSIVE QueueSourceUnits(_, _, _)
QueueSourceUnits(st, dep_id, compiled) ==
  IF Len(compiled) = 0 THEN st
  ELSE LET valid_unit == compiled[1]
           next ==
             IF valid_unit.self_id = dep_id /\ dep_id \notin st.visited_source_units
               THEN [st EXCEPT !.visited_source_units = @ \cup {dep_id},
                               !.worklist_source_units = Append(@, valid_unit)]
               ELSE st
       IN  QueueSourceUnits(next, dep_id, Tail(compiled))

\* One import of a module of the root-rooted traversal.
VisitImport(st, dep_id, compiled, published_addresses, c2o) ==
  IF dep_id[1] \in published_addresses
    THEN KeepPublished(st, dep_id[1], c2o)
    ELSE QueueSourceUnits(st, dep_id, compiled)

RECURSIVE VisitImports(_, _, _, _, _)
VisitImports(st, dep_ids, compiled, published_addresses, c2o) ==
  IF Len(dep_ids) = 0 THEN st
  ELSE VisitImports(VisitImport(st, dep_ids[1], compiled, published_addresses, c2o),
                    Tail(dep_ids), compiled, published_addresses, c2o)

\* One batch of the root-rooted traversal: every unit of the batch, every
\* import of each.
RECURSIVE VisitBatch(_, _, _, _, _)
VisitBatch(st, batch, compiled, published_addresses, c2o) ==
  IF Len(batch) = 0 THEN st
  ELSE VisitBatch(VisitImports(st, batch[1].immediate_dependencies, compiled,
                               published_addresses, c2o),
                  Tail(batch), compiled, published_addresses, c2o)

\* A look of the closure that keeps the address of every other import.
ClosureImportKeepingAll(st, dep_id, published_addresses, c2o) ==
  IF dep_id[1] \in published_addresses
    THEN KeepPublished(st, dep_id[1], c2o)
    ELSE [st EXCEPT !.kept_output_addresses = @ \cup {dep_id[1]}]

\* The closure's look at one import of a module at a kept published
\* address: only imports of known compilation addresses count.
ClosureImport(st, dep_id, published_addresses, c2o) ==
  IF dep_id[1] \in published_addresses
    THEN KeepPublished(st, dep_id[1], c2o)
    ELSE st

RECURSIVE ClosureImports(_, _, _, _)
ClosureImports(st, dep_ids, published_addresses, c2o) ==
  IF Len(dep_ids) = 0 THEN st
  ELSE ClosureImports(ClosureImport(st, dep_ids[1], published_addresses, c2o),
                      Tail(dep_ids), published_addresses, c2o)

\* The closure's pass over the units for one popped compilation address.
RECURSIVE ClosureUnits(_, _, _, _, _)
ClosureUnits(st, addr, compiled, published_addresses, c2o) ==
  IF Len(compiled) = 0 THEN st
  ELSE ClosureUnits(
         IF compiled[1].self_id[1] = addr
           THEN ClosureImports(st, compiled[1].immediate_dependencies,
                               published_addresses, c2o)
           ELSE st,
         addr, Tail(compiled), published_addresses, c2o)

\* A filter of the dependency ids that leaves them in the caller's order.
FilterUnsorted(ids, kept) == Filter(ids, LAMBDA id : id \in kept)

\* 3. Filter dependency IDs, then sort them.
FilterAndSort(ids, kept) == SortSet({id \in Range(ids) : id \in kept}, AddrLess)

(***************************************************************************)
(* Module ordering                                                         *)
(***************************************************************************)
\* Ord of ModuleId: by address, then by name.
ModuleIdLess(a, b) ==
  IF a[1] # b[1] THEN AddrLess(a[1], b[1]) ELSE StrLess(a[2], b[2])

\* Modules::compute_topological_order over the modules given: an order in
\* which every module comes after the modules of the set it depends on (the
\* least id first among those that are ready), or Err when the dependencies
\* among them have a cycle.
RECURSIVE TopologicalOrder(_, _)
TopologicalOrder(infos, emitted) ==
  LET ids == {infos[i].self_id : i \in 1..Len(infos)}
      left == ids \ Range(emitted)
      DepsIn(id) ==
        LET unit == CHOOSE u \in Range(infos) : u.self_id = id
        IN  Range(unit.immediate_dependencies) \cap ids
      ready == {id \in left : DepsIn(id) \subseteq Range(emitted)}
  IN  IF left = {} THEN Ok(emitted)
      ELSE IF ready = {} THEN Err("Circular dependency detected")
      ELSE TopologicalOrder(infos,
             Append(emitted, CHOOSE id \in ready :
                               \A other \in ready \ {id} : ModuleIdLess(id, other)))

compute_topological_order(infos) == TopologicalOrder(infos, <<>>)

\* A reordering that leaves the modules in the order they were met.
EncounterOrder(infos, ordered_ids) == infos

\* The modules in the order of ordered_ids, then the ones it leaves out in
\* the order they were met.
OrderedModules(infos, ordered_ids) ==
  LET found == [i \in 1..Len(ordered_ids) |->
                  Filter(infos, LAMBDA u : u.self_id = ordered_ids[i])]
      RECURSIVE First(_)
      First(i) == IF i > Len(found) THEN <<>>
                  ELSE (IF Len(found[i]) > 0 THEN <<found[i][1]>> ELSE <<>>) \o First(i + 1)
      ordered == First(1)
  IN  ordered \o Filter(infos, LAMBDA u : \A j \in 1..Len(ordered) :
                                            ordered[j].self_id # u.self_id)

(***************************************************************************)
(* Serialization and digest                                                *)
(***************************************************************************)
\* NamedCompiledModule::serialize: the bytes of a compiled module hold the
\* address it was compiled at, its name and its body.
serialize(unit) == unit.self_id[1] \o AsBytes(unit.self_id[2]) \o unit.body

Base64Alphabet ==
  <<
     "A", "B", "C", "D", "E", "F", "G", "H", "I", "J", "K", "L", "M", "N", "O", "P",
     "Q", "R", "S", "T", "U", "V", "W", "X", "Y", "Z", "a", "b", "c", "d", "e", "f",
     "g", "h", "i", "j", "k", "l", "m", "n", "o", "p", "q", "r", "s", "t", "u", "v",
     "w", "x", "y", "z", "0", "1", "2", "3", "4", "5", "6", "7", "8", "9", "+", "/" >>

\* general_purpose::STANDARD.encode: three bytes to four characters, padded
\* with = to a multiple of four.
Base64Encode(bytes) ==
  LET n == Len(bytes)
      B(i) == IF i <= n THEN bytes[i] ELSE 0
      Char(v) == Base64Alphabet[v + 1]
      Group(g) ==
        LET b0 == B(3 * g - 2)
            b1 == B(3 * g - 1)
            b2 == B(3 * g)
        IN  << Char(b0 \div 4),
               Char((b0 % 4) * 16 + b1 \div 16),
               IF 3 * g - 1 > n THEN "=" ELSE Char((b1 % 16) * 4 + b2 \div 64),
               IF 3 * g > n THEN "=" ELSE Char(b2 % 64) >>
  IN  [i \in 1..(4 * ((n + 2) \div 3)) |-> Group((i + 3) \div 4)[((i - 1) % 4) + 1]]

\* MovePackage::compute_digest_for_modules_and_deps(modules, deps, true): a
\* hash of the module bytes and the dependency ids, taken to be free of
\* collisions; the value stands for the 32 bytes of the digest.
compute_digest_for_modules_and_deps(module_byte_strings, dep_object_ids) ==
  [modules |-> module_byte_strings, object_ids |-> dep_object_ids]

\* struct CompilationOutput, what serde_json::to_string writes on success.
CompilationOutput(modules_b64, dependencies_hex, digest) ==
  [modules |-> modules_b64, dependencies |-> dependencies_hex, digest |-> digest]

\* The output of a failure: a diagnostic string.
Diagnostic(message) == [diagnostic |-> message]

\* struct MoveCompilerResult
MoveCompilerResult(success, output) == [success |-> success, output |-> output]

(***************************************************************************)
(* compute_manifest_digest                                                 *)
(***************************************************************************)
\* A JSON text of compute_manifest_digest is what serde_json makes of it: an
\* object with a deps array of objects (each a map from its keys to string
\* values), an array of strings, an object without deps, or no JSON at all.
DepsObject(entries) == [kind |-> "object", deps |-> entries]

NameArray(names) == [kind |-> "strings", names |-> names]

ObjectWithoutDeps == [kind |-> "object_without_deps"]

NotJson == [kind |-> "not_json"]

\* An optional field of a JSON object: a key that is absent gives None
\* (#[serde(default)]).
Field(entry, key) == IF key \in DOMAIN entry THEN Some(entry[key]) ELSE None

\* struct DepInfo, deserialized from a JSON object by the names of its
\* fields; a key that names no field is ignored.
DepInfo(entry) ==
  [name |-> entry["name"],
   git |-> Field(entry, "git"),
   subdir |-> Field(entry, "subdir"),
   rev |-> Field(entry, "rev"),
   local |-> Field(entry, "local"),
   use_environment |-> Field(entry, "use_environment")]

\* serde_json::from_str::<Input>: name is required in every entry.
from_str_Input(text) ==
  IF text.kind = "object" /\ \A i \in 1..Len(text.deps) : "name" \in DOMAIN text.deps[i]
    THEN Some([deps |-> [i \in 1..Len(text.deps) |-> DepInfo(text.deps[i])]])
    ELSE None

\* serde_json::from_str::<Vec<String>>
from_str_Strings(text) == IF text.kind = "strings" THEN Some(text.names) ELSE None

\* Determine dependency type based on input fields: git, else local, else
\* none.
DefaultDependency(dep) ==
  IF IsSome(dep.git)
    THEN Some([dependency_info |->
                 [variant |-> "Git",
                  repo |-> Unwrap(dep.git),
                  rev |-> dep.rev,
                  subdir |-> IF IsSome(dep.subdir) THEN Unwrap(dep.subdir) ELSE <<>>],
               is_override |-> FALSE])
  ELSE IF IsSome(dep.local)
    THEN Some([dependency_info |-> [variant |-> "Local", local |-> Unwrap(dep.local)],
               is_override |-> FALSE])
  ELSE None

\* struct ReplacementDependency (addresses is None throughout).
ReplacementDependency(dependency, use_environment) ==
  [dependency |-> dependency, use_environment |-> use_environment]

\* The strings of a sequence joined by a separator.
RECURSIVE Join(_, _)
Join(parts, sep) ==
  IF Len(parts) = 0 THEN <<>>
  ELSE IF Len(parts) = 1 THEN parts[1]
  ELSE parts[1] \o sep \o Join(Tail(parts), sep)

t_comma == <<",", " ">>

t_is == <<" ", "=", " ">>

t_open == <<"{", " ">>

t_close == <<" ", "}">>

t_deps == <<"[", "d", "e", "p", "s", "]", "\n">>

t_Git == <<"G", "i", "t">>

t_Local == <<"L", "o", "c", "a", "l">>

t_git == <<"g", "i", "t">>

t_rev == <<"r", "e", "v">>

t_subdir == <<"s", "u", "b", "d", "i", "r">>

t_local == <<"l", "o", "c", "a", "l">>

t_override == <<"o", "v", "e", "r", "r", "i", "d", "e", " ", "=", " ", "f", "a", "l", "s", "e">>

t_use_environment ==
  <<"u", "s", "e", "-", "e", "n", "v", "i", "r", "o", "n", "m", "e", "n", "t">>

\* key = "value"
TomlString(key, value) == key \o t_is \o <<"\"">> \o value \o <<"\"">>

\* key = { parts }
TomlTable(key, parts) == key \o t_is \o t_open \o Join(parts, t_comma) \o t_close

\* The TOML of one ReplacementDependency: the flattened dependency (the
\* variant's table, then override), then use-environment; a field that is
\* None is not written.
TomlReplacement(name, r) ==
  TomlTable(name,
    (IF IsSome(r.dependency)
       THEN << (IF Unwrap(r.dependency).dependency_info.variant = "Git"
                  THEN TomlTable(t_Git,
                         << TomlString(t_git, Unwrap(r.dependency).dependency_info.repo) >>
                         \o (IF IsSome(Unwrap(r.dependency).dependency_info.rev)
                               THEN << TomlString(t_rev,
                                         Unwrap(Unwrap(r.dependency).dependency_info.rev)) >>
                               ELSE <<>>)
                         \o << TomlString(t_subdir,
                                 Unwrap(r.dependency).dependency_info.subdir) >>)
                  ELSE TomlTable(t_Local,
                         << TomlString(t_local,
                              Unwrap(r.dependency).dependency_info.local) >>)),
               t_override >>
       ELSE <<>>)
    \o (IF IsSome(r.use_environment)
          THEN << TomlString(t_use_environment, Unwrap(r.use_environment)) >>
          ELSE <<>>))

\* toml_edit::ser::to_string(&RepinTriggers { deps }): the entries of the
\* BTreeMap in the order of their keys, one a line.
RECURSIVE TomlLines(_, _)
TomlLines(deps, names) ==
  IF Len(names) = 0 THEN <<>>
  ELSE TomlReplacement(names[1], deps[names[1]]) \o <<"\n">>
       \o TomlLines(deps, Tail(names))

to_string(triggers) == t_deps \o TomlLines(triggers.deps, Keys(triggers.deps))

\* The width of a SHA-256 digest in bytes.
DigestLength == 32

\* Sha256::digest: a hash of DigestLength bytes.  Byte i of this stand-in
\* weighs the bytes of the text at the positions i, i + 32, i + 64, .. and
\* the length of the text.
Sha256(bytes) ==
  [i \in 1..DigestLength |->
     LET count == IF i > Len(bytes) THEN 0 ELSE (Len(bytes) - i) \div DigestLength + 1
         Sum[k \in 0..count] ==
           IF k = 0 THEN Len(bytes)
           ELSE Sum[k - 1] + (2 * k - 1) * bytes[i + (k - 1) * DigestLength]
     IN  Sum[count] % 256]

\* A formatting of the hash in lower case: {:x}.
LowerHexFormat(hash) == HexEncode(hash)

\* format!("{:X}", hash): two upper-case digits a byte.
UpperHexFormat(hash) ==
  [i \in 1..(2 * Len(hash)) |->
     IF i % 2 = 1 THEN UpperHex[(hash[(i + 1) \div 2] \div 16) + 1]
                  ELSE UpperHex[(hash[i \div 2] % 16) + 1]]

\* Serialize to TOML, compute the SHA256 hash, format as uppercase hex.
DigestOfMap(deps_map) == UpperHexFormat(Sha256(AsBytes(to_string([deps |-> deps_map]))))

(***************************************************************************)
(* The calls the model makes                                               *)
(***************************************************************************)
\* The length of the longest dependenciesJson array.
MaxDeps == 3

\* The length of the longest dependenciesJson array of the calls that are
\* compared with an earlier call.
MaxRepeatDeps == 2

\* The sequences without repetition of at most n elements of S.
DistinctSeqs(S, n) ==
  {q \in UNION {[1..k -> S] : k \in 0..n} :
     \A i, j \in 1..Len(q) : i # j => q[i] # q[j]}

CompileArgs(fj, dj, oj) ==
  [files_json |-> fj, dependencies_json |-> dj, options_json |-> oj]

m_A == <<n_A, <<"m">>>>

m_C == <<n_C, <<"n">>>>

m_x == <<h_5, <<"x">>>>

m_P == <<n_P, <<"p">>>>

m_y == <<h_6, <<"y">>>>

\* The calls of compile: each root with every array of distinct dependency
\* groups, a root without dependencies under every options text and with
\* every reaction of the external services, and the malformed texts.
Inputs ==
  {CompileArgs(JsonText(r), JsonText(d), None) :
     r \in {RootUsing(<<m_A>>), RootUsing(<<m_A, m_C>>), RootUsing(<<m_C>>),
            RootBare(<<m_x>>, "ok"), RootBadManifest},
     d \in DistinctSeqs({PkgA, PkgB, PkgC, PkgD, PkgE, PkgF}, MaxDeps)}
  \cup
  {CompileArgs(JsonText(RootBare(<<>>, q)), EmptyText, o) :
     q \in {"ok", "no_compiler", "build_err", "diags", "unverifiable",
            "sui_unverifiable"},
     o \in {None, Some(MalformedJson),
            Some(JsonText(CompileOptions(FALSE, TRUE, None))),
            Some(JsonText(CompileOptions(TRUE, FALSE, None)))}}
  \cup
  {CompileArgs(JsonText(r), EmptyText, None) : r \in {RootCycle, RootTwo}}
  \cup
  {CompileArgs(JsonText(r), JsonText(d), None) :
     r \in {RootUsing(<<m_P>>), RootUsing(<<m_A, m_P>>)},
     d \in DistinctSeqs({PkgP, PkgE, PkgB, PkgA}, MaxDeps)}
  \cup
  {CompileArgs(JsonText(RootUsing(<<m_A>>)), JsonText(d), o) :
     d \in {<<PkgA, PkgU>>, <<PkgU, PkgA>>, <<PkgA, PkgR>>},
     o \in {None, Some(JsonText(CompileOptions(FALSE, TRUE, None)))}}
  \cup
  {CompileArgs(JsonText(RootUsing(<<m_A>>)), JsonText(d), None) :
     d \in {<<PkgA, g>> : g \in {PkgG, PkgM, PkgT}}
            \cup {<<g, PkgA>> : g \in {PkgG, PkgM, PkgT}}}
  \cup
  {CompileArgs(JsonText(RootUsing(<<m_P, m_y>>)),
               JsonText(<<PkgP, PkgE, PkgB, PkgF>>), None)}
  \cup
  {CompileArgs(MalformedJson, EmptyText, None),
   CompileArgs(EmptyText, EmptyText, None),
   CompileArgs(MalformedJson, MalformedJson, None),
   CompileArgs(JsonText(RootBadManifest), MalformedJson, None),
   CompileArgs(JsonText(RootUsing(<<m_A>>)), JsonText(<<PkgD, PkgA>>),
               Some(MalformedJson))}

\* The calls that are compared with an earlier call.
RepeatInputs ==
  {CompileArgs(JsonText(r), JsonText(d), None) :
     r \in {RootUsing(<<m_A>>), RootBare(<<>>, "ok")},
     d \in DistinctSeqs({PkgA, PkgB, PkgD}, MaxRepeatDeps)}

(***************************************************************************)
(* State                                                                   *)
(***************************************************************************)
VARIABLES
  \* the arguments of the running (or last) call of compile
  files_json, dependencies_json, options_json,
  \* options and the result of setup_vfs
  options, root, files, dep_packages,
  \* the root package
  root_named_address_map, root_package_name, root_edition, root_targets,
  \* the dependency loop; dep_index is the position of its iterator
  dep_package_paths, dependency_ids, compilation_to_output,
  known_compilation_addresses, dep_index,
  \* the compiler
  all_targets, compiler, units,
  \* tree shaking
  kept_output_addresses, visited_compilation_addresses, worklist_source_units,
  worklist_published_addresses, visited_source_units,
  \* the artifact
  dependency_ids_vec, module_infos, modules, module_bytes, package_digest,
  \* the MoveCompilerResult returned, and where the call is
  result, pc,
  \* an observer's note of one finished call: its arguments and its result
  memo,
  \* compute_manifest_digest: its argument, its locals, the String it returns
  \* and where the call is
  deps_json, input, simple, deps_map, dep_cursor, manifest_digest, digest_pc,
  \* the two texts an observer has digested one after the other, and the
  \* String returned for the first
  digest_pair, first_digest,
  \* parse_hex_address_to_bytes: the text an observer has parsed, a second
  \* text for the same number, the Option returned for each and where the
  \* observer is
  addr_str, twin_str, addr_bytes, twin_bytes, parse_pc,
  \* test_impl: its locals, the TestPlan handed to the unit-test harness, the
  \* MoveTestResult returned and where the call is
  test_all_targets, test_tests, test_units, test_plan, test_result, test_pc

argv == <<files_json, dependencies_json, options_json>>

parsed_v == <<options, root, files, dep_packages>>

root_v == <<root_named_address_map, root_package_name, root_edition, root_targets>>

binder_v == <<dep_package_paths, dependency_ids, compilation_to_output,
              known_compilation_addresses, dep_index>>

driver_v == <<all_targets, compiler, units>>

pruner_v == <<kept_output_addresses, visited_compilation_addresses,
              worklist_source_units, worklist_published_addresses,
              visited_source_units>>

artifact_v == <<dependency_ids_vec, module_infos, modules, module_bytes, package_digest>>

manifest_v == <<deps_json, input, simple, deps_map, dep_cursor, manifest_digest, digest_pc,
                digest_pair, first_digest>>

parse_v == <<addr_str, twin_str, addr_bytes, twin_bytes, parse_pc>>

test_v == <<test_all_targets, test_tests, test_units, test_plan, test_result, test_pc>>

vars == <<argv, parsed_v, root_v, binder_v, driver_v, pruner_v, artifact_v,
          result, pc, memo, manifest_v, parse_v, test_v>>

\* let mut root_named_address_map ...; root_package_name; root_edition
DeclareRoot ==
  /\ root_named_address_map' = EmptyMap
  /\ root_package_name' = s_root
  /\ root_edition' = "LEGACY"
  /\ root_targets' = <<>>

\* let mut dep_package_paths; dependency_ids; compilation_to_output;
\* known_compilation_addresses: each call starts with its own, empty.
DeclareBinder ==
  /\ dep_package_paths' = <<>>
  /\ dependency_ids' = <<>>
  /\ compilation_to_output' = EmptyMap
  /\ known_compilation_addresses' = {}
  /\ dep_index' = 1

\* A pruner whose sets and worklists are not declared in the call but kept
\* between calls.
KeepPruner ==
  UNCHANGED <<kept_output_addresses, visited_compilation_addresses,
              worklist_source_units, worklist_published_addresses,
              visited_source_units>>

\* let mut kept_output_addresses; visited_compilation_addresses; the two
\* worklists; visited_source_units
DeclarePruner ==
  /\ kept_output_addresses' = {}
  /\ visited_compilation_addresses' = {}
  /\ worklist_source_units' = <<>>
  /\ worklist_published_addresses' = <<>>
  /\ visited_source_units' = {}

\* let mut module_infos; modules; module_bytes
DeclareArtifact ==
  /\ dependency_ids_vec' = <<>>
  /\ module_infos' = <<>>
  /\ modules' = <<>>
  /\ module_bytes' = <<>>
  /\ package_digest' = None

NoCall ==
  /\ files_json = MalformedJson
  /\ dependencies_json = EmptyText
  /\ options_json = None
  /\ options = DefaultOptions
  /\ root = EmptyMap
  /\ files = EmptyMap
  /\ dep_packages = <<>>
  /\ root_named_address_map = EmptyMap
  /\ root_package_name = s_root
  /\ root_edition = "LEGACY"
  /\ root_targets = <<>>
  /\ dep_package_paths = <<>>
  /\ dependency_ids = <<>>
  /\ compilation_to_output = EmptyMap
  /\ known_compilation_addresses = {}
  /\ dep_index = 1
  /\ all_targets = <<>>
  /\ compiler = None
  /\ units = <<>>
  /\ kept_output_addresses = {}
  /\ visited_compilation_addresses = {}
  /\ worklist_source_units = <<>>
  /\ worklist_published_addresses = <<>>
  /\ visited_source_units = {}
  /\ dependency_ids_vec = <<>>
  /\ module_infos = <<>>
  /\ modules = <<>>
  /\ module_bytes = <<>>
  /\ package_digest = None
  /\ result = None
  /\ pc = "idle"
  /\ memo = None
  /\ deps_json = NotJson
  /\ input = None
  /\ simple = None
  /\ deps_map = EmptyMap
  /\ dep_cursor = 1
  /\ manifest_digest = None
  /\ digest_pc = "idle"
  /\ digest_pair = <<NotJson, NotJson>>
  /\ first_digest = None
  /\ test_all_targets = <<>>
  /\ test_tests = None
  /\ test_units = <<>>
  /\ test_plan = None
  /\ test_result = None
  /\ test_pc = "idle"

Init ==
  /\ NoCall
  /\ addr_str = <<>>
  /\ twin_str = <<>>
  /\ addr_bytes = None
  /\ twin_bytes = None
  /\ parse_pc = "idle"

(***************************************************************************)
(* compile_impl, step by step                                              *)
(***************************************************************************)
\* return MoveCompilerResult { success, output }
Return(r) ==
  /\ result' = Some(r)
  /\ pc' = "done"

\* compile(files_json, dependencies_json, options_json) is called: the call
\* has locals of its own.
Call(args) ==
  /\ files_json' = args.files_json
  /\ dependencies_json' = args.dependencies_json
  /\ options_json' = args.options_json
  /\ options' = DefaultOptions
  /\ root' = EmptyMap
  /\ files' = EmptyMap
  /\ dep_packages' = <<>>
  /\ DeclareRoot
  /\ DeclareBinder
  /\ all_targets' = <<>>
  /\ compiler' = None
  /\ units' = <<>>
  /\ DeclarePruner
  /\ DeclareArtifact
  /\ result' = None
  /\ pc' = "options"
  /\ UNCHANGED <<manifest_v, parse_v, test_v>>

\* A first call of compile.
Begin ==
  /\ pc = "idle"
  /\ \E args \in Inputs : Call(args)
  /\ UNCHANGED memo

\* Parse options early.
ParseOptions ==
  /\ pc = "options"
  /\ options' = parse_options(options_json)
  /\ pc' = "setup_vfs"
  /\ UNCHANGED <<argv, root, files, dep_packages, root_v, binder_v, driver_v,
                 pruner_v, artifact_v, result, memo, manifest_v, parse_v, test_v>>

\* let (root, files, dep_packages) = match setup_vfs(..) { Err(e) => return .. }
SetupVfs ==
  /\ pc = "setup_vfs"
  /\ LET r == setup_vfs(files_json, dependencies_json)
     IN  IF r.ok
           THEN /\ root' = r.v.root
                /\ files' = r.v.files
                /\ dep_packages' = r.v.dep_packages
                /\ pc' = "root_package"
                /\ UNCHANGED result
           ELSE /\ Return(MoveCompilerResult(FALSE, Diagnostic(r.e)))
                /\ UNCHANGED <<root, files, dep_packages>>
  /\ UNCHANGED <<argv, options, root_v, binder_v, driver_v, pruner_v,
                 artifact_v, memo, manifest_v, parse_v, test_v>>

\* Build PackagePaths for targets (root package): the manifest, then the
\* sorted root targets.
ResolveRoot ==
  /\ pc = "root_package"
  /\ LET b == RootManifestBindings(files)
     IN  /\ root_named_address_map' = b.root_named_address_map
         /\ root_package_name' = b.root_package_name
         /\ root_edition' = b.root_edition
  /\ root_targets' = RootTargets(files, dep_packages)
  /\ pc' = "dependencies"
  /\ UNCHANGED <<argv, parsed_v, binder_v, driver_v, pruner_v, artifact_v,
                 result, memo, manifest_v, parse_v, test_v>>

\* The loop body's effect on the binder's variables, given the group and its
\* bindings.
BindGroup(pkg_group, b) ==
  /\ dependency_ids' = PushDependencyId(dependency_ids, b)
  /\ compilation_to_output' = TrackOutput(compilation_to_output, b)
  /\ known_compilation_addresses' =
       IF IsSome(b.fallback_dep_id)
         THEN known_compilation_addresses \cup {Unwrap(b.fallback_dep_id)}
         ELSE known_compilation_addresses
  /\ root_named_address_map' =
       MergeAddresses(root_named_address_map, b.named_address_map)
  /\ dep_package_paths' =
       Append(dep_package_paths,
              PackagePaths(pkg_group.name, TRUE, b.edition,
                           DepFiles(pkg_group), b.named_address_map))

\* One turn of: for pkg_group in &dep_packages { .. }
BindDependency ==
  /\ pc = "dependencies"
  /\ dep_index <= Len(dep_packages)
  /\ BindGroup(dep_packages[dep_index], DependencyBindings(dep_packages[dep_index]))
  /\ dep_index' = dep_index + 1
  /\ UNCHANGED <<argv, parsed_v, root_package_name, root_edition, root_targets,
                 driver_v, pruner_v, artifact_v, result, pc, memo, manifest_v, parse_v, test_v>>

\* After the loop: the framework fallbacks, target_package, all_targets.
AssembleTargets ==
  /\ pc = "dependencies"
  /\ dep_index > Len(dep_packages)
  /\ root_named_address_map' = WithFrameworkFallbacks(root_named_address_map)
  /\ all_targets' =
       <<PackagePaths(s_root, FALSE, root_edition, root_targets,
                      WithFrameworkFallbacks(root_named_address_map))>>
       \o dep_package_paths
  /\ pc' = "compiler"
  /\ UNCHANGED <<argv, parsed_v, root_package_name, root_edition, root_targets,
                 binder_v, compiler, units, pruner_v, artifact_v, result, memo, manifest_v, parse_v, test_v>>

\* Build compiler with from_package_paths.
CreateCompiler ==
  /\ pc = "compiler"
  /\ LET c == from_package_paths(root, all_targets)
     IN  IF c.ok
           THEN /\ compiler' = Some(c.v)
                /\ pc' = "build"
                /\ UNCHANGED result
           ELSE /\ Return(MoveCompilerResult(FALSE,
                            Diagnostic("Failed to create compiler")))
                /\ UNCHANGED compiler
  /\ UNCHANGED <<argv, parsed_v, root_v, binder_v, all_targets, units,
                 pruner_v, artifact_v, memo, manifest_v, parse_v, test_v>>

\* let (compiler_files, res) = match compiler.build() { .. }; match res { .. }
BuildUnits ==
  /\ pc = "build"
  /\ LET r == build(Unwrap(compiler))
     IN  IF ~r.ok
           THEN /\ Return(MoveCompilerResult(FALSE,
                            Diagnostic("Compiler initialization error")))
                /\ UNCHANGED units
         ELSE IF ~r.v.ok
           THEN /\ Return(MoveCompilerResult(FALSE, Diagnostic(r.v.e)))
                /\ UNCHANGED units
         ELSE /\ units' = r.v.v
              /\ pc' = "verify"
              /\ UNCHANGED result
  /\ UNCHANGED <<argv, parsed_v, root_v, binder_v, all_targets, compiler,
                 pruner_v, artifact_v, memo, manifest_v, parse_v, test_v>>

\* A verification step that goes on whatever the verifiers say.
VerifyUnitsSkipped ==
  /\ pc = "verify"
  /\ pc' = "seed"
  /\ UNCHANGED <<argv, parsed_v, root_v, binder_v, driver_v, pruner_v,
                 artifact_v, result, memo, manifest_v, parse_v, test_v>>

\* VERIFICATION STEP
VerifyUnits ==
  /\ pc = "verify"
  /\ IF verify_bytecode(units, options.test_mode).ok
       THEN /\ pc' = "seed"
            /\ UNCHANGED result
       ELSE Return(MoveCompilerResult(FALSE,
                     Diagnostic("Bytecode Verification Failed")))
  /\ UNCHANGED <<argv, parsed_v, root_v, binder_v, driver_v, pruner_v,
                 artifact_v, memo, manifest_v, parse_v, test_v>>

\* 2a. Initialize with Root Modules.
SeedWorklist ==
  /\ pc = "seed"
  /\ LET seeds == Filter(units, LAMBDA u : IsRootUnit(u, root_package_name))
     IN  /\ worklist_source_units' = seeds
         /\ visited_source_units' = {seeds[i].self_id : i \in 1..Len(seeds)}
  /\ pc' = "source_traversal"
  /\ UNCHANGED <<argv, parsed_v, root_v, binder_v, driver_v,
                 kept_output_addresses, visited_compilation_addresses,
                 worklist_published_addresses, artifact_v, result, memo, manifest_v, parse_v, test_v>>

\* One turn of: while !worklist_source_units.is_empty() { .. }
TraverseSourceBatch ==
  /\ pc = "source_traversal"
  /\ worklist_source_units # <<>>
  /\ LET st == VisitBatch(
                 PrunerState(kept_output_addresses, visited_compilation_addresses,
                             worklist_published_addresses, visited_source_units,
                             <<>>),
                 worklist_source_units, units, known_compilation_addresses,
                 compilation_to_output)
     IN  /\ kept_output_addresses' = st.kept_output_addresses
         /\ visited_compilation_addresses' = st.visited_compilation_addresses
         /\ worklist_published_addresses' = st.worklist_published_addresses
         /\ visited_source_units' = st.visited_source_units
         /\ worklist_source_units' = st.worklist_source_units
  /\ UNCHANGED <<argv, parsed_v, root_v, binder_v, driver_v, artifact_v,
                 result, pc, memo, manifest_v, parse_v, test_v>>

\* The root-rooted traversal is over.
SourceTraversalDone ==
  \/ pc = "source_traversal" /\ worklist_source_units = <<>>
  \/ pc = "published_closure"

\* 2b. One turn of: while let Some(addr) = worklist_published_addresses.pop()
ClosePublished ==
  /\ SourceTraversalDone
  /\ worklist_published_addresses # <<>>
  /\ LET n == Len(worklist_published_addresses)
         addr == worklist_published_addresses[n]
         st == ClosureUnits(
                 PrunerState(kept_output_addresses, visited_compilation_addresses,
                             SubSeq(worklist_published_addresses, 1, n - 1),
                             visited_source_units, worklist_source_units),
                 addr, units, known_compilation_addresses, compilation_to_output)
     IN  /\ kept_output_addresses' = st.kept_output_addresses
         /\ visited_compilation_addresses' = st.visited_compilation_addresses
         /\ worklist_published_addresses' = st.worklist_published_addresses
  /\ pc' = "published_closure"
  /\ UNCHANGED <<argv, parsed_v, root_v, binder_v, driver_v,
                 worklist_source_units, visited_source_units, artifact_v,
                 result, memo, manifest_v, parse_v, test_v>>

\* 3. Filter dependency IDs and sort them; build module list with IDs.
FilterDependencies ==
  /\ SourceTraversalDone
  /\ worklist_published_addresses = <<>>
  /\ dependency_ids_vec' = FilterAndSort(dependency_ids, kept_output_addresses)
  /\ module_infos' = Filter(units, LAMBDA u : IsRootUnit(u, root_package_name))
  /\ pc' = "order"
  /\ UNCHANGED <<argv, parsed_v, root_v, binder_v, driver_v, pruner_v,
                 modules, module_bytes, package_digest, result, memo, manifest_v, parse_v, test_v>>

\* An ordering step that goes on with the modules as they are when the
\* ordering fails.
OrderModulesIgnoringFailure ==
  /\ pc = "order"
  /\ LET order == compute_topological_order(module_infos)
     IN  module_infos' = IF order.ok THEN OrderedModules(module_infos, order.v)
                         ELSE module_infos
  /\ pc' = "serialize"
  /\ UNCHANGED <<argv, parsed_v, root_v, binder_v, driver_v, pruner_v,
                 dependency_ids_vec, modules, module_bytes, package_digest,
                 result, memo, manifest_v, parse_v, test_v>>

\* Use Move utility to mirror CLI dependency ordering.
OrderModules ==
  /\ pc = "order"
  /\ LET order == compute_topological_order(module_infos)
     IN  IF order.ok
           THEN /\ module_infos' = OrderedModules(module_infos, order.v)
                /\ pc' = "serialize"
                /\ UNCHANGED result
           ELSE /\ Return(MoveCompilerResult(FALSE,
                            Diagnostic("Failed to compute module ordering")))
                /\ UNCHANGED module_infos
  /\ UNCHANGED <<argv, parsed_v, root_v, binder_v, driver_v, pruner_v,
                 dependency_ids_vec, modules, module_bytes, package_digest, memo, manifest_v, parse_v, test_v>>

\* Serialize, compute the digest, return the artifact.
EmitArtifact ==
  /\ pc = "serialize"
  /\ LET bytes == [i \in 1..Len(module_infos) |-> serialize(module_infos[i])]
         encoded == [i \in 1..Len(bytes) |-> Base64Encode(bytes[i])]
         digest == compute_digest_for_modules_and_deps(bytes, dependency_ids_vec)
     IN  /\ module_bytes' = bytes
         /\ modules' = encoded
         /\ package_digest' = Some(digest)
         /\ Return(MoveCompilerResult(TRUE,
              CompilationOutput(encoded,
                [i \in 1..Len(dependency_ids_vec) |->
                   to_canonical_string(dependency_ids_vec[i])],
                digest)))
  /\ UNCHANGED <<argv, parsed_v, root_v, binder_v, driver_v, pruner_v,
                 dependency_ids_vec, module_infos, memo, manifest_v, parse_v, test_v>>

Step ==
  \/ ParseOptions
  \/ SetupVfs
  \/ ResolveRoot
  \/ BindDependency
  \/ AssembleTargets
  \/ CreateCompiler
  \/ BuildUnits
  \/ VerifyUnits
  \/ SeedWorklist
  \/ TraverseSourceBatch
  \/ ClosePublished
  \/ FilterDependencies
  \/ OrderModules
  \/ EmitArtifact

Next == Begin \/ Step

Spec == Init /\ [][Next]_vars

\* The observer notes the call that has just returned: its arguments, its
\* result, and from then on whether a call with other arguments was made.
Remember ==
  /\ pc = "done"
  /\ memo = None
  /\ memo' = Some([args |-> CompileArgs(files_json, dependencies_json, options_json),
                   result |-> Unwrap(result),
                   other |-> FALSE])
  /\ UNCHANGED <<argv, parsed_v, root_v, binder_v, driver_v, pruner_v,
                 artifact_v, result, pc, manifest_v, parse_v, test_v>>

\* A call of compile when no call is running: a first one, or one after an
\* earlier call has returned.
BeginRepeat ==
  /\ pc \in {"idle", "done"}
  /\ \E args \in RepeatInputs :
       /\ Call(args)
       /\ memo' = IF IsSome(memo) /\ args # Unwrap(memo).args
                    THEN Some([Unwrap(memo) EXCEPT !.other = TRUE])
                    ELSE memo

NextRepeat == BeginRepeat \/ Step \/ Remember

SpecRepeat == Init /\ [][NextRepeat]_vars

(***************************************************************************)
(* compute_manifest_digest, step by step                                   *)
(***************************************************************************)
\* The most entries a deps array or a string array has.
MaxManifestDeps == 2

v_g == <<"g">>

v_r == <<"r">>

v_s == <<"s">>

v_l == <<"l">>

v_t == <<"t">>

v_z == <<"z">>

\* The entries of deps arrays: a git dependency, a local one, one with git
\* and local, one with useEnvironment, one with use_environment, one with a
\* name only, one with rev but no git, and one without name.
DepEntries ==
  { [name |-> n_A, git |-> v_g, rev |-> v_r, subdir |-> v_s],
    [name |-> n_B, local |-> v_l],
    [name |-> n_B, git |-> v_g, local |-> v_l],
    [name |-> n_A, useEnvironment |-> v_t],
    [name |-> n_C, use_environment |-> v_t],
    [name |-> n_C],
    [name |-> n_A, rev |-> v_r],
    [git |-> v_g] }

\* The sequences of at most n elements of a set.
SeqsUpTo(S, n) == UNION {[1..k -> S] : k \in 0..n}

\* The orders of the elements of a sequence.
Orderings(s) ==
  { [i \in 1..Len(s) |-> s[p[i]]] :
      p \in {q \in [1..Len(s) -> 1..Len(s)] : \A i, j \in 1..Len(s) : q[i] = q[j] => i = j} }

\* The deps arrays that differ from one in the value of one field of one
\* entry.
FieldChanges(entries) ==
  { [entries EXCEPT ![i] = [entries[i] EXCEPT ![k] = v_z]] :
      <<i, k>> \in {<<i, k>> \in (1..Len(entries)) \X
                                 {"name", "git", "rev", "subdir", "local",
                                  "useEnvironment", "use_environment"} :
                      k \in DOMAIN entries[i]} }

\* The pairs of texts an observer digests: a text and the same text, a text
\* and a reordering of it, a deps array and the array with one field changed.
DigestPairs ==
  UNION { {<<DepsObject(e), DepsObject(f)>> : f \in Orderings(e) \cup FieldChanges(e)} :
            e \in SeqsUpTo(DepEntries, MaxManifestDeps) }
  \cup UNION { {<<NameArray(e), NameArray(f)>> : f \in Orderings(e)} :
                 e \in SeqsUpTo({n_A, n_B}, MaxManifestDeps) }
  \cup {<<NotJson, NotJson>>, <<ObjectWithoutDeps, ObjectWithoutDeps>>}

\* compute_manifest_digest(deps_json) is called: the call has locals of its
\* own.
DigestCall(text) ==
  /\ deps_json' = text
  /\ input' = None
  /\ simple' = None
  /\ deps_map' = EmptyMap
  /\ dep_cursor' = 1
  /\ manifest_digest' = None
  /\ digest_pc' = "parse"

\* A first call of compute_manifest_digest, with the first text of a pair.
DigestFirst ==
  /\ digest_pc = "idle"
  /\ \E pair \in DigestPairs :
       /\ digest_pair' = pair
       /\ DigestCall(pair[1])
  /\ UNCHANGED <<first_digest, argv, parsed_v, root_v, binder_v, driver_v, pruner_v,
                 artifact_v, result, pc, memo, parse_v, test_v>>

\* The observer keeps the String returned and calls compute_manifest_digest
\* with the second text of the pair.
DigestSecond ==
  /\ digest_pc = "returned"
  /\ first_digest = None
  /\ first_digest' = manifest_digest
  /\ DigestCall(digest_pair[2])
  /\ UNCHANGED <<digest_pair, argv, parsed_v, root_v, binder_v, driver_v, pruner_v,
                 artifact_v, result, pc, memo, parse_v, test_v>>

\* Parse the JSON input; fall back to a simple string array; return the
\* empty String when neither parses.
DigestParse ==
  /\ digest_pc = "parse"
  /\ IF IsSome(from_str_Input(deps_json))
       THEN /\ input' = from_str_Input(deps_json)
            /\ digest_pc' = "deps"
            /\ UNCHANGED <<simple, manifest_digest>>
     ELSE IF IsSome(from_str_Strings(deps_json))
       THEN /\ simple' = from_str_Strings(deps_json)
            /\ digest_pc' = "names"
            /\ UNCHANGED <<input, manifest_digest>>
     ELSE /\ manifest_digest' = Some(<<>>)
          /\ digest_pc' = "returned"
          /\ UNCHANGED <<input, simple>>
  /\ UNCHANGED <<deps_json, deps_map, dep_cursor, digest_pair, first_digest, argv,
                 parsed_v, root_v, binder_v, driver_v, pruner_v, artifact_v, result,
                 pc, memo, parse_v, test_v>>

\* for dep in input.deps: deps_map.insert(dep.name, ReplacementDependency)
DigestInsertDep ==
  /\ digest_pc = "deps"
  /\ dep_cursor <= Len(Unwrap(input).deps)
  /\ deps_map' = MapInsert(deps_map, Unwrap(input).deps[dep_cursor].name,
                   ReplacementDependency(
                     DefaultDependency(Unwrap(input).deps[dep_cursor]),
                     Unwrap(input).deps[dep_cursor].use_environment))
  /\ dep_cursor' = dep_cursor + 1
  /\ UNCHANGED <<deps_json, input, simple, manifest_digest, digest_pc, digest_pair,
                 first_digest, argv, parsed_v, root_v, binder_v, driver_v, pruner_v,
                 artifact_v, result, pc, memo, parse_v, test_v>>

\* for name in simple: deps_map.insert(name, ReplacementDependency of Nones)
DigestInsertName ==
  /\ digest_pc = "names"
  /\ dep_cursor <= Len(Unwrap(simple))
  /\ deps_map' = MapInsert(deps_map, Unwrap(simple)[dep_cursor],
                   ReplacementDependency(None, None))
  /\ dep_cursor' = dep_cursor + 1
  /\ UNCHANGED <<deps_json, input, simple, manifest_digest, digest_pc, digest_pair,
                 first_digest, argv, parsed_v, root_v, binder_v, driver_v, pruner_v,
                 artifact_v, result, pc, memo, parse_v, test_v>>

\* Serialize to TOML, hash, format, return.
DigestHash ==
  /\ \/ digest_pc = "deps" /\ dep_cursor > Len(Unwrap(input).deps)
     \/ digest_pc = "names" /\ dep_cursor > Len(Unwrap(simple))
  /\ manifest_digest' = Some(DigestOfMap(deps_map))
  /\ digest_pc' = "returned"
  /\ UNCHANGED <<deps_json, input, simple, deps_map, dep_cursor, digest_pair,
                 first_digest, argv, parsed_v, root_v, binder_v, driver_v, pruner_v,
                 artifact_v, result, pc, memo, parse_v, test_v>>

NextManifest ==
  \/ DigestFirst
  \/ DigestSecond
  \/ DigestParse
  \/ DigestInsertDep
  \/ DigestInsertName
  \/ DigestHash

SpecManifest == Init /\ [][NextManifest]_vars

(***************************************************************************)
(* parse_hex_address_to_bytes, call by call                                *)
(***************************************************************************)
\* The most digits a text has besides a run of zeros.
MaxHexLen == 3

\* The characters of the digits: digits of both cases and one that is none.
HexChars == {"0", "1", "a", "F", "g"}

\* What stands before and after the digits: nothing, the 0x marker, the
\* marker twice, the marker with white space around the text.
Wrappers ==
  { <<<<>>, <<>>>>,
    <<<<"0", "x">>, <<>>>>,
    <<<<"0", "x", "0", "x">>, <<>>>>,
    <<<<" ", "0", "x">>, <<" ">>>> }

\* A run of zero digits: none, or as many as bring the digits to the width
\* of an address and beyond.
ZeroRun(n) == [i \in 1..n |-> "0"]

ZeroRuns == {ZeroRun(0), ZeroRun(2 * AddressLength - 2)}

\* The digits with the case of every letter changed.
SwapCase(digits) ==
  [i \in 1..Len(digits) |->
     IF \E k \in 11..16 : LowerHex[k] = digits[i]
       THEN UpperHex[CHOOSE k \in 11..16 : LowerHex[k] = digits[i]]
     ELSE IF \E k \in 11..16 : UpperHex[k] = digits[i]
       THEN LowerHex[CHOOSE k \in 11..16 : UpperHex[k] = digits[i]]
     ELSE digits[i]]

\* Other ways to write the number that digits write: with leading zeros,
\* in the other case.
Respellings(digits) ==
  IF Len(digits) = 0 THEN {digits}
  ELSE {digits, <<"0">> \o digits, <<"0", "0">> \o digits, SwapCase(digits)}

\* An observer holds a text and a second text for the same number.
InitParse ==
  /\ NoCall
  /\ \E digits \in SeqsUpTo(HexChars, MaxHexLen), w \in Wrappers, zeros \in ZeroRuns :
       /\ addr_str = w[1] \o zeros \o digits \o w[2]
       /\ twin_str \in {<<"0", "x">> \o r : r \in Respellings(digits)}
  /\ addr_bytes = None
  /\ twin_bytes = None
  /\ parse_pc = "first"

\* parse_hex_address_to_bytes(addr_str) is called and returns.
ParseAddress ==
  /\ parse_pc = "first"
  /\ addr_bytes' = parse_hex_address_to_bytes(addr_str)
  /\ parse_pc' = "second"
  /\ UNCHANGED <<addr_str, twin_str, twin_bytes, argv, parsed_v, root_v, binder_v,
                 driver_v, pruner_v, artifact_v, result, pc, memo, manifest_v, test_v>>

\* parse_hex_address_to_bytes(twin_str) is called and returns.
ParseTwin ==
  /\ parse_pc = "second"
  /\ twin_bytes' = parse_hex_address_to_bytes(twin_str)
  /\ parse_pc' = "returned"
  /\ UNCHANGED <<addr_str, twin_str, addr_bytes, argv, parsed_v, root_v, binder_v,
                 driver_v, pruner_v, artifact_v, result, pc, memo, manifest_v, test_v>>

NextParse == ParseAddress \/ ParseTwin

SpecParse == InitParse /\ [][NextParse]_vars

(***************************************************************************)
(* test_impl, step by step                                                 *)
(***************************************************************************)
\* The most dependency groups a call of test is given.
MaxTestDeps == 2

p_S_s == <<"d", "e", "p", "s", "/", "S", "/", "s", ".", "m", "o", "v", "e">>

p_V_v == <<"d", "e", "p", "s", "/", "V", "/", "v", ".", "m", "o", "v", "e">>

n_S == <<"S">>

n_V == <<"V">>

\* Package S: a framework package at 0x2 whose module declares tests.
PkgS ==
  PackageGroup(n_S,
    MapOf({<<p_S_s, SourceFile(ModuleSource(n_S, <<"s">>, <<>>, <<17>>, "tests"))>>}),
    None, Some(MapOf({<<n_S, h_2>>})), None)

\* Package V: a package at 0x7 whose module declares tests.
PkgV ==
  PackageGroup(n_V,
    MapOf({<<p_V_v, SourceFile(ModuleSource(n_V, <<"v">>, <<>>, <<18>>, "tests"))>>}),
    None, Some(MapOf({<<n_V, h_7>>})), None)

\* The calls of the test specification: a root with tests and a root that
\* uses package A, with dependency groups with and without tests, with an
\* address mapping and with a manifest only; and a call with a malformed
\* files text.
TestInputs ==
  {CompileArgs(JsonText(r), JsonText(d), None) :
     r \in {RootBare(<<>>, "tests"), RootUsing(<<m_A>>)},
     d \in DistinctSeqs({PkgV, PkgS, PkgA, PkgB}, MaxTestDeps)}
  \cup {CompileArgs(MalformedJson, JsonText(<<PkgV>>), None)}

\* MoveTestResult { passed, output }
MoveTestResult(passed, output) == [passed |-> passed, output |-> output]

\* root_targets of test_impl: the root's source files in key order.
TestRootTargets(file_map) == Filter(Keys(file_map), IsSourcePath)

\* The named addresses and the edition of a dependency group in test_impl:
\* the entries of the address mapping that parse, none without a mapping;
\* the edition the group gives, Legacy when it gives none.
TestBindings(pkg_group) ==
  [named_address_map |->
     IF IsSome(pkg_group.address_mapping)
       THEN AddressesOfMapping(Unwrap(pkg_group.address_mapping),
                               Keys(Unwrap(pkg_group.address_mapping)))
       ELSE EmptyMap,
   edition |->
     IF IsSome(pkg_group.edition) THEN parse_edition(Unwrap(pkg_group.edition))
     ELSE "LEGACY"]

\* dep_package_paths of test_impl.
TestDepPackagePaths(packages) ==
  [i \in 1..Len(packages) |->
     PackagePaths(packages[i].name, TRUE, TestBindings(packages[i]).edition,
                  DepFiles(packages[i]), TestBindings(packages[i]).named_address_map)]

\* root_named_address_map of test_impl after the first k groups are merged.
RECURSIVE TestMergedMap(_, _, _)
TestMergedMap(file_map, packages, k) ==
  IF k = 0 THEN RootManifestBindings(file_map).root_named_address_map
  ELSE MergeAddresses(TestMergedMap(file_map, packages, k - 1),
                      TestBindings(packages[k]).named_address_map)

\* all_targets of test_impl: the root target, then every dependency.
TestAllTargets(file_map, packages) ==
  <<PackagePaths(s_root, FALSE, RootManifestBindings(file_map).root_edition,
                 TestRootTargets(file_map),
                 WithFrameworkFallbacks(TestMergedMap(file_map, packages, Len(packages))))>>
  \o TestDepPackagePaths(packages)

\* construct_test_plan(compilation_env, None, &cfgir): one ModuleTestPlan for
\* every module of the targets that declares tests.
construct_test_plan(compiled) ==
  Some([i \in 1..Len(Filter(compiled, LAMBDA u : u.quirk = "tests")) |->
          [module_id |-> Filter(compiled, LAMBDA u : u.quirk = "tests")[i].self_id]])

\* format!("{:?}", address): 64 lower-case digits.
DebugAddress(a) == HexEncode(a)

\* plans.retain(..): every plan but those of the frameworks 0x1 and 0x2.
RetainPlans(plans) ==
  Filter(plans, LAMBDA plan :
    /\ ~EndsWith(DebugAddress(plan.module_id[1]), ZeroRun(2 * AddressLength - 1) \o <<"1">>)
    /\ ~EndsWith(DebugAddress(plan.module_id[1]), ZeroRun(2 * AddressLength - 1) \o <<"2">>))

\* return MoveTestResult { passed, output }
TestReturn(r) ==
  /\ test_result' = Some(r)
  /\ test_pc' = "done"

\* test(files_json, dependencies_json) is called with the texts of the call
\* of compile that has returned.
TestCall ==
  /\ pc = "done"
  /\ test_pc = "idle"
  /\ test_pc' = "setup_vfs"
  /\ UNCHANGED <<test_all_targets, test_tests, test_units, test_plan, test_result,
                 argv, parsed_v, root_v, binder_v, driver_v, pruner_v, artifact_v,
                 result, pc, memo, manifest_v, parse_v>>

\* setup_vfs; PackagePaths for the root; PackagePaths for the dependencies;
\* the std and sui fallbacks; all_targets.
TestBind ==
  /\ test_pc = "setup_vfs"
  /\ LET r == setup_vfs(files_json, dependencies_json)
     IN  IF r.ok
           THEN /\ test_all_targets' = TestAllTargets(r.v.files, r.v.dep_packages)
                /\ test_pc' = "compiler"
                /\ UNCHANGED test_result
           ELSE /\ TestReturn(MoveTestResult(FALSE, r.e))
                /\ UNCHANGED test_all_targets
  /\ UNCHANGED <<test_tests, test_units, test_plan,
                 argv, parsed_v, root_v, binder_v, driver_v, pruner_v, artifact_v,
                 result, pc, memo, manifest_v, parse_v>>

\* Compiler::from_package_paths; run::<PASS_CFGIR>; construct_test_plan and
\* the filter of its plans; at_cfgir(cfgir).build().  The front end reports
\* every diagnostic of the model, so the build after it gives the units.
TestCompile ==
  /\ test_pc = "compiler"
  /\ LET c == from_package_paths(setup_vfs(files_json, dependencies_json).v.root,
                                 test_all_targets)
         r == build(c.v)
     IN  IF ~c.ok
           THEN /\ TestReturn(MoveTestResult(FALSE, "Failed to create compiler"))
                /\ UNCHANGED <<test_tests, test_units>>
         ELSE IF ~r.ok
           THEN /\ TestReturn(MoveTestResult(FALSE, "Compiler error"))
                /\ UNCHANGED <<test_tests, test_units>>
         ELSE IF ~r.v.ok
           THEN /\ TestReturn(MoveTestResult(FALSE, r.v.e))
                /\ UNCHANGED <<test_tests, test_units>>
         ELSE /\ test_tests' =
                   LET plans == construct_test_plan(r.v.v)
                   IN  IF IsSome(plans) THEN Some(RetainPlans(Unwrap(plans))) ELSE None
              /\ test_units' = r.v.v
              /\ test_pc' = "test_plan"
              /\ UNCHANGED test_result
  /\ UNCHANGED <<test_all_targets, test_plan,
                 argv, parsed_v, root_v, binder_v, driver_v, pruner_v, artifact_v,
                 result, pc, memo, manifest_v, parse_v>>

\* let test_plan = match test_tests { Some(tests) => TestPlan::new(..),
\* None => return "No tests found" }
TestBuildPlan ==
  /\ test_pc = "test_plan"
  /\ IF IsSome(test_tests)
       THEN /\ test_plan' = Some([tests |-> Unwrap(test_tests), units |-> test_units])
            /\ test_pc' = "run"
            /\ UNCHANGED test_result
       ELSE /\ TestReturn(MoveTestResult(TRUE, "No tests found"))
            /\ UNCHANGED test_plan
  /\ UNCHANGED <<test_all_targets, test_tests, test_units,
                 argv, parsed_v, root_v, binder_v, driver_v, pruner_v, artifact_v,
                 result, pc, memo, manifest_v, parse_v>>

\* config.run_and_report_unit_tests(test_plan, ..): the harness runs the
\* plans it is handed and reports whether they passed.
TestRun ==
  /\ test_pc = "run"
  /\ \E passed \in BOOLEAN :
       TestReturn(MoveTestResult(passed, [report |-> Unwrap(test_plan).tests]))
  /\ UNCHANGED <<test_all_targets, test_tests, test_units, test_plan,
                 argv, parsed_v, root_v, binder_v, driver_v, pruner_v, artifact_v,
                 result, pc, memo, manifest_v, parse_v>>

\* A first call of compile of the test specification.
BeginTest ==
  /\ pc = "idle"
  /\ \E args \in TestInputs : Call(args)
  /\ UNCHANGED memo

NextTest ==
  \/ BeginTest
  \/ Step
  \/ TestCall
  \/ TestBind
  \/ TestCompile
  \/ TestBuildPlan
  \/ TestRun

SpecTest == Init /\ [][NextTest]_vars

(***************************************************************************)
(* compile on import graphs with cycles, run to completion                 *)
(***************************************************************************)
\* The most dependency groups a call on a graph with cycles is given.
MaxPrunerDeps == 3

p_Y_c == <<"d", "e", "p", "s", "/", "Y", "/", "c", ".", "m", "o", "v", "e">>

p_Y_d == <<"d", "e", "p", "s", "/", "Y", "/", "d", ".", "m", "o", "v", "e">>

p_J_j == <<"d", "e", "p", "s", "/", "J", "/", "j", ".", "m", "o", "v", "e">>

p_K_k == <<"d", "e", "p", "s", "/", "K", "/", "k", ".", "m", "o", "v", "e">>

n_Y == <<"Y">>

n_J == <<"J">>

n_K == <<"K">>

m_c == <<h_6, <<"c">>>>

m_J == <<n_J, <<"j">>>>

\* Package Y: a source dependency of two modules at the literal address 0x6
\* that use each other.
PkgY ==
  PackageGroup(n_Y,
    MapOf({<<p_Y_c, SourceFile(ModuleSource(h_6, <<"c">>, << <<h_6, <<"d">>>> >>, <<19>>, "ok"))>>,
           <<p_Y_d, SourceFile(ModuleSource(h_6, <<"d">>, << <<h_6, <<"c">>>> >>, <<20>>, "ok"))>>}),
    None, None, None)

\* Packages J and K: compiled at 0x4 and at 0x7; the module of each uses the
\* module of the other.
PkgJ ==
  PackageGroup(n_J,
    MapOf({<<p_J_j, SourceFile(ModuleSource(n_J, <<"j">>, << <<n_K, <<"k">>>> >>, <<21>>, "ok"))>>}),
    None, Some(MapOf({<<n_J, h_4>>, <<n_K, h_7>>})), None)

PkgK ==
  PackageGroup(n_K,
    MapOf({<<p_K_k, SourceFile(ModuleSource(n_K, <<"k">>, << <<n_J, <<"j">>>> >>, <<22>>, "ok"))>>}),
    None, Some(MapOf({<<n_K, h_7>>, <<n_J, h_4>>})), None)

\* The calls on graphs with cycles: a root that uses the source cycle, the
\* published cycle or both, a root that is a cycle itself and a root that
\* uses package A, with the packages in every choice and order.
PrunerInputs ==
  {CompileArgs(JsonText(r), JsonText(d), None) :
     r \in {RootUsing(<<m_c>>), RootUsing(<<m_J>>), RootUsing(<<m_c, m_J>>),
            RootUsing(<<m_A>>), RootCycle},
     d \in DistinctSeqs({PkgY, PkgJ, PkgK, PkgA}, MaxPrunerDeps)}

\* A first call of compile on a graph with cycles.
BeginPruner ==
  /\ pc = "idle"
  /\ \E args \in PrunerInputs : Call(args)
  /\ UNCHANGED memo

NextPruner == BeginPruner \/ Step

\* A call runs to completion: no step of compile_impl suspends or yields, so
\* the seeding, every turn of the two loops and the filter after them are
\* taken when they can be.
SpecPruner ==
  /\ Init
  /\ [][NextPruner]_vars
  /\ WF_vars(SeedWorklist)
  /\ WF_vars(TraverseSourceBatch)
  /\ WF_vars(ClosePublished)
  /\ WF_vars(FilterDependencies)

(***************************************************************************)
(* Properties of compile                                                   *)
(***************************************************************************)
\* The arguments of the running (or last) call.
CurrentArgs == CompileArgs(files_json, dependencies_json, options_json)

\* A call has returned and the observer holds an earlier one.
ReturnedAfterNoted == pc = "done" /\ IsSome(memo)

\* Two arrays hold the same groups, each as often as the other.
SameGroups(d1, d2) ==
  /\ Len(d1) = Len(d2)
  /\ \A g \in Range(d1) \cup Range(d2) :
       Cardinality({i \in 1..Len(d1) : d1[i] = g})
         = Cardinality({i \in 1..Len(d2) : d2[i] = g})

\* Two calls that differ at most in the order of the dependenciesJson array.
Reordered(a1, a2) ==
  /\ a1.files_json = a2.files_json
  /\ a1.options_json = a2.options_json
  /\ IsSome(from_str(a1.dependencies_json))
  /\ IsSome(from_str(a2.dependencies_json))
  /\ SameGroups(Unwrap(from_str(a1.dependencies_json)),
                Unwrap(from_str(a2.dependencies_json)))

\* C1: two calls of compile with identical arguments return identical
\* results (the success flag and, on success, modules, dependencies and
\* digest; on failure the diagnostic), whatever calls ran before or between.
C1_SameArgumentsSameResult ==
  (ReturnedAfterNoted /\ Unwrap(memo).args = CurrentArgs)
    => Unwrap(result) = Unwrap(memo).result

\* C1 happens: a call succeeds with a dependency retained, a call with other
\* arguments is made, and the first call is made again and has returned.
C1_Witness ==
  /\ ReturnedAfterNoted
  /\ Unwrap(memo).args = CurrentArgs
  /\ Unwrap(memo).other
  /\ Unwrap(result).success
  /\ Len(Unwrap(result).output.dependencies) > 0

\* C2: a call whose dependenciesJson array is a permutation of an earlier
\* call's (all else equal) has the same outcome, and on success the same
\* dependencies list and the same digest.
C2_OrderOfGroupsIsIrrelevant ==
  (ReturnedAfterNoted /\ Reordered(Unwrap(memo).args, CurrentArgs))
    => /\ Unwrap(result).success = Unwrap(memo).result.success
       /\ Unwrap(result).success
            => /\ Unwrap(result).output.dependencies
                    = Unwrap(memo).result.output.dependencies
               /\ Unwrap(result).output.digest = Unwrap(memo).result.output.digest

\* C5: across two successful calls the digest is equal exactly when the
\* emitted modules and the emitted dependencies are equal, and the order in
\* which the dependency groups were supplied does not change it.
C5_DigestOfModulesAndDependencies ==
  (ReturnedAfterNoted /\ Unwrap(result).success /\ Unwrap(memo).result.success)
    => LET now == Unwrap(result).output
           then == Unwrap(memo).result.output
       IN  /\ (now.digest = then.digest)
                <=> (now.modules = then.modules /\ now.dependencies = then.dependencies)
           /\ Reordered(Unwrap(memo).args, CurrentArgs) => now.digest = then.digest

\* A call has returned the artifact.
ReturnedArtifact == pc = "done" /\ Unwrap(result).success

\* The module ids reached from the ids given along the imports of the
\* compiled units.
RECURSIVE ImportClosure(_, _)
ImportClosure(compiled, ids) ==
  LET more == UNION {Range(compiled[i].immediate_dependencies) :
                       i \in {j \in 1..Len(compiled) : compiled[j].self_id \in ids}}
  IN  IF more \subseteq ids THEN ids ELSE ImportClosure(compiled, ids \cup more)

\* The modules of the root package and the modules they import, directly or
\* transitively.
ImportedByRoot ==
  ImportClosure(units, {units[i].self_id :
                          i \in {j \in 1..Len(units) :
                                   IsRootUnit(units[j], root_package_name)}})

\* Whether a module of the package of that name is imported, directly or
\* transitively, by a root module.
PackageImported(name) ==
  \E i \in 1..Len(units) :
    units[i].package_name = Some(name) /\ units[i].self_id \in ImportedByRoot

\* The output address of a supplied group, if it has one.
OutputAddressOf(pkg_group) == DependencyBindings(pkg_group).dep_id_for_output

\* C3: after a successful compile, the output address of a supplied package
\* none of whose modules is imported, directly or transitively, by a root
\* module is absent from the dependencies returned (stated for the packages
\* that share their output address with no imported package).
C3_UnimportedPackagesArePruned ==
  ReturnedArtifact =>
    \A i \in 1..Len(dep_packages) :
      (/\ IsSome(OutputAddressOf(dep_packages[i]))
       /\ ~PackageImported(dep_packages[i].name)
       /\ \A j \in 1..Len(dep_packages) :
            PackageImported(dep_packages[j].name)
              => OutputAddressOf(dep_packages[j]) # OutputAddressOf(dep_packages[i]))
        => ~Contains(Unwrap(result).output.dependencies,
                     to_canonical_string(Unwrap(OutputAddressOf(dep_packages[i]))))

\* C4: after a successful compile, when a root module imports a module at
\* the compilation address of a published dependency A and a compiled module
\* at that address imports a module at the compilation address of a
\* published dependency B, the output address of B is among the dependencies
\* returned.
C4_PublishedClosureIsRetained ==
  ReturnedArtifact =>
    \A r, a \in 1..Len(units) :
      (/\ IsRootUnit(units[r], root_package_name)
       /\ units[a].self_id[1] \in known_compilation_addresses
       /\ \E k \in 1..Len(units[r].immediate_dependencies) :
            units[r].immediate_dependencies[k][1] = units[a].self_id[1])
        => \A k \in 1..Len(units[a].immediate_dependencies) :
             LET b_addr == units[a].immediate_dependencies[k][1]
             IN  b_addr \in known_compilation_addresses
                   => Contains(Unwrap(result).output.dependencies,
                               to_canonical_string(compilation_to_output[b_addr]))

\* A call has returned a failure.
ReturnedFailure == pc = "done" /\ ~Unwrap(result).success

\* The call has parsed its arguments (or failed to).
ArgumentsParsed == pc \notin {"idle", "options", "setup_vfs"}

\* filesJson does not parse.
FilesMalformed == ~IsSome(from_str(files_json))

\* dependenciesJson is not empty and does not parse.
DependenciesMalformed ==
  ~dependencies_json.empty /\ ~IsSome(from_str(dependencies_json))

\* optionsJson is given and does not parse.
OptionsMalformed == IsSome(options_json) /\ ~IsSome(from_str(Unwrap(options_json)))

\* An address text that is no hexadecimal address.
InvalidHex(text) == ~IsSome(parse_hex_address_to_bytes(text))

\* The address texts of an optional address table.
TableTexts(addresses) ==
  IF IsSome(addresses)
    THEN {Unwrap(Unwrap(addresses)[k]) :
            k \in {n \in DOMAIN Unwrap(addresses) : IsSome(Unwrap(addresses)[n])}}
    ELSE {}

\* The root manifest, parsed; None when it is missing or does not parse.
RootManifestOf(file_map) ==
  IF s_Move_toml \in DOMAIN file_map THEN file_map[s_Move_toml].toml ELSE None

\* The address texts the call reads: the root manifest's table, and of each
\* group the output id, the address mapping or else the manifest's table and
\* published-at.
AddressTextsRead ==
  (IF IsSome(RootManifestOf(files))
     THEN TableTexts(Unwrap(RootManifestOf(files)).addresses) ELSE {})
  \cup UNION {
    (IF IsSome(dep_packages[i].published_id_for_output)
       THEN {Unwrap(dep_packages[i].published_id_for_output)} ELSE {})
    \cup
    (IF IsSome(dep_packages[i].address_mapping)
       THEN {Unwrap(dep_packages[i].address_mapping)[k] :
               k \in DOMAIN Unwrap(dep_packages[i].address_mapping)}
     ELSE IF IsSome(GroupManifest(dep_packages[i]))
       THEN TableTexts(Unwrap(GroupManifest(dep_packages[i])).addresses)
            \cup (IF IsSome(Unwrap(GroupManifest(dep_packages[i])).package.published_at)
                    THEN {Unwrap(Unwrap(GroupManifest(dep_packages[i])).package.published_at)}
                    ELSE {})
     ELSE {}) : i \in 1..Len(dep_packages)}

\* The call returned before it reached the compiler.
FailedOnInput == ReturnedFailure /\ all_targets = <<>>

\* Nothing after setup_vfs has run.
OnlyParsed ==
  /\ root = EmptyMap /\ files = EmptyMap /\ dep_packages = <<>>
  /\ root_targets = <<>> /\ dep_index = 1 /\ dep_package_paths = <<>>
  /\ all_targets = <<>> /\ compiler = None /\ units = <<>>

\* The groups the dependency loop has bound.
Bound == 1..Len(dep_package_paths)

RootManifestUnusable == ~IsSome(RootManifestOf(files))

\* The group has a manifest and it does not parse.
GroupManifestUnparsable(pkg_group) ==
  /\ \E path \in DOMAIN pkg_group.files : EndsWith(path, s_Move_toml)
  /\ ~IsSome(GroupManifest(pkg_group))

\* The edition of a package's PackagePaths.
EditionOf(package_paths) == Unwrap(package_paths.name)[2].edition

\* The compilation addresses of the bound groups other than group i.
CompilationAddressesBut(i) ==
  {Unwrap(DependencyBindings(dep_packages[j]).fallback_dep_id) :
     j \in {k \in Bound \ {i} :
              IsSome(DependencyBindings(dep_packages[k]).fallback_dep_id)}}

\* What every call whose root manifest is missing or unparsable shows: the
\* root package is named root, its edition is Legacy, its address table is
\* empty before the first group is bound, and the root target's named
\* addresses are std, sui and what the groups contribute.
RootDegradesToDefaults ==
  (pc \notin {"idle", "options", "setup_vfs", "root_package"} /\ RootManifestUnusable)
    => /\ root_package_name = s_root
       /\ root_edition = "LEGACY"
       /\ (pc = "dependencies" /\ dep_index = 1) => root_named_address_map = EmptyMap
       /\ all_targets # <<>>
            => /\ EditionOf(all_targets[1]) = "LEGACY"
               /\ DOMAIN all_targets[1].named_address_map
                    = {s_std, s_sui}
                      \cup UNION {DOMAIN dep_package_paths[i].named_address_map :
                                    i \in Bound}

NotPruned ==
  /\ kept_output_addresses = {} /\ visited_compilation_addresses = {}
  /\ worklist_source_units = <<>> /\ worklist_published_addresses = <<>>
  /\ visited_source_units = {}
  /\ dependency_ids_vec = <<>> /\ module_infos = <<>>

\* No part of the artifact has been made.
NoArtifact == modules = <<>> /\ module_bytes = <<>> /\ package_digest = None

\* C10: a call that has returned has returned either the artifact (success,
\* with modules, dependencies and digest, all units verified and ordered) or
\* a failure with a diagnostic and no part of the artifact; and a failure of
\* the compiler's construction, of the build or of the verification has left
\* every later stage not run.
C10_NoPartialArtifact ==
  pc = "done" =>
    IF Unwrap(result).success
      THEN /\ DOMAIN Unwrap(result).output = {"modules", "dependencies", "digest"}
           /\ Unwrap(result).output.modules = modules
           /\ Len(modules) = Len(module_infos)
           /\ Unwrap(result).output.digest = Unwrap(package_digest)
           /\ Len(Unwrap(result).output.dependencies) = Len(dependency_ids_vec)
           /\ verify_bytecode(units, options.test_mode).ok
           /\ compute_topological_order(module_infos).ok
      ELSE /\ DOMAIN Unwrap(result).output = {"diagnostic"}
           /\ NoArtifact
           /\ compiler = None => units = <<>>
           /\ units = <<>> => NotPruned
           /\ ~verify_bytecode(units, options.test_mode).ok => NotPruned

\* C10 happens: a call has returned a failure of the verification, with the
\* units built and nothing after them.
C10_Witness ==
  /\ ReturnedFailure
  /\ units # <<>>
  /\ ~verify_bytecode(units, options.test_mode).ok
  /\ NotPruned

(***************************************************************************)
(* Properties of the verification, the dependencies and the modules        *)
(***************************************************************************)
\* The compiled units the generic verifier rejects, and those the Sui
\* verifier rejects.
RejectedByMove == {i \in 1..Len(units) : units[i].quirk = "unverifiable"}

RejectedBySui == {i \in 1..Len(units) : units[i].quirk = "sui_unverifiable"}

\* C11: a call that is not in test mode returns success only when no
\* compiled unit, of the root or of any dependency (imported or not), is
\* rejected by the generic or by the Sui verifier; in test mode, only when
\* none is rejected by the generic verifier; and a call whose build has
\* produced a rejected unit returns the failure of the verification.
C11_EveryUnitVerified ==
  pc = "done" =>
    LET rejected == IF options.test_mode THEN RejectedByMove
                    ELSE RejectedByMove \cup RejectedBySui
    IN  /\ Unwrap(result).success => rejected = {}
        /\ rejected # {} =>
              Unwrap(result) = MoveCompilerResult(FALSE,
                                 Diagnostic("Bytecode Verification Failed"))

\* C11 happens: a call not in test mode has returned a failure because the
\* Sui verifier rejects a module of a dependency no root module imports,
\* every other unit being accepted.
C11_Witness ==
  /\ ReturnedFailure
  /\ ~options.test_mode
  /\ RejectedByMove = {}
  /\ \E i \in RejectedBySui :
       /\ RejectedBySui = {i}
       /\ units[i].package_name = Some(n_U)
       /\ ~PackageImported(n_U)
  /\ \E i \in 1..Len(units) : IsRootUnit(units[i], root_package_name)

\* The output addresses of the supplied dependency groups.
SuppliedOutputAddresses ==
  {Unwrap(OutputAddressOf(dep_packages[i])) :
     i \in {j \in 1..Len(dep_packages) : IsSome(OutputAddressOf(dep_packages[j]))}}

\* C12: the dependencies of a successful compile are the canonical strings
\* of a list of addresses that is strictly ascending by byte value and whose
\* elements are exactly the output addresses of the supplied groups that
\* are in kept_output_addresses; the list is empty when no group is
\* supplied.
C12_DependenciesFilteredAndSorted ==
  ReturnedArtifact =>
    LET deps == Unwrap(result).output.dependencies
    IN  /\ Len(deps) = Len(dependency_ids_vec)
        /\ \A i \in 1..Len(deps) :
             deps[i] = to_canonical_string(dependency_ids_vec[i])
        /\ \A i, j \in 1..Len(deps) :
             i < j => AddrLess(dependency_ids_vec[i], dependency_ids_vec[j])
        /\ Range(dependency_ids_vec)
             = SuppliedOutputAddresses \cap kept_output_addresses
        /\ dep_packages = <<>> => deps = <<>>

\* C12 happens: a compile has succeeded with two dependencies or more, the
\* caller's order of the output addresses was not the ascending one, and an
\* output address that is not retained has been filtered out.
C12_Witness ==
  /\ ReturnedArtifact
  /\ Len(Unwrap(result).output.dependencies) >= 2
  /\ \E i, j \in 1..Len(dependency_ids) :
       i < j /\ AddrLess(dependency_ids[j], dependency_ids[i])
            /\ dependency_ids[i] \in kept_output_addresses
            /\ dependency_ids[j] \in kept_output_addresses
  /\ \E i \in 1..Len(dependency_ids) :
       dependency_ids[i] \notin kept_output_addresses

\* A compiled unit is root-owned: its package name is unset, is the "root"
\* sentinel or is the name the root manifest declares.
RootOwned(unit) ==
  unit.package_name \in {None, Some(s_root), Some(root_package_name)}

\* The root-owned units in the order the compiler returned them.
RootOwnedUnits == Filter(units, RootOwned)

\* The ids of the root-owned units.
RootOwnedIds == {RootOwnedUnits[i].self_id : i \in 1..Len(RootOwnedUnits)}

\* C13: the modules of a successful compile are the encoded bytes of the
\* root-owned units, each exactly once, and of nothing else; and whichever
\* of the root-owned ids an ordering returns, the modules it returns come
\* first, in its order, and the remaining ones follow in the order they were
\* met.
C13_ModulesAreTheRootOwnedUnits ==
  ReturnedArtifact =>
    /\ Len(modules) = Len(RootOwnedUnits)
    /\ Unwrap(result).output.modules = modules
    /\ \A i \in 1..Len(RootOwnedUnits) :
         Cardinality({k \in 1..Len(modules) :
                        modules[k] = Base64Encode(serialize(RootOwnedUnits[i]))}) = 1
    /\ \A returned \in SUBSET RootOwnedIds :
         LET ordered_ids == SortSet(returned, ModuleIdLess)
             out == OrderedModules(RootOwnedUnits, ordered_ids)
         IN  /\ Len(out) = Len(RootOwnedUnits)
             /\ \A k \in 1..Len(ordered_ids) : out[k].self_id = ordered_ids[k]
             /\ SubSeq(out, Len(ordered_ids) + 1, Len(out))
                  = Filter(RootOwnedUnits, LAMBDA u : u.self_id \notin returned)

\* C13 happens: a compile has succeeded whose units are a module of the
\* "root" target, a module of a group that has the name the root manifest
\* declares, and a module of another package; the first two are the modules.
C13_Witness ==
  /\ ReturnedArtifact
  /\ Len(modules) = 2
  /\ \E i, j, k \in 1..Len(units) :
       /\ units[i].package_name = Some(s_root)
       /\ units[j].package_name = Some(root_package_name)
       /\ root_package_name # s_root
       /\ ~RootOwned(units[k])

\* The root-owned modules a root-owned unit immediately imports, itself
\* excepted.
RootImportsOf(unit) == (Range(unit.immediate_dependencies) \cap RootOwnedIds) \ {unit.self_id}

RootImportsCyclic ==
  \E ids \in (SUBSET RootOwnedIds) \ {{}} :
    \A i \in 1..Len(RootOwnedUnits) :
      RootOwnedUnits[i].self_id \in ids
        => Range(RootOwnedUnits[i].immediate_dependencies) \cap ids # {}

\* C15: a call that has come to order root modules whose imports have a
\* cycle returns the failure of the ordering: success is false, the output
\* is the diagnostic alone, and no modules, bytes or digest have been made.
C15_CycleIsReported ==
  (pc = "done" /\ module_infos # <<>> /\ RootImportsCyclic) =>
    /\ Unwrap(result) = MoveCompilerResult(FALSE,
                          Diagnostic("Failed to compute module ordering"))
    /\ NoArtifact

\* C15 happens: a call whose two root modules import each other has been
\* built, verified and pruned, and has returned a failure.
C15_Witness ==
  /\ ReturnedFailure
  /\ Len(module_infos) = 2
  /\ module_infos[1].self_id \in Range(module_infos[2].immediate_dependencies)
  /\ module_infos[2].self_id \in Range(module_infos[1].immediate_dependencies)

(***************************************************************************)
(* Properties of the pruner                                                *)
(***************************************************************************)
\* The ids of the modules met by following, from the ids given, the imports
\* whose address is not a known compilation address.
RECURSIVE UnpublishedReach(_)
UnpublishedReach(ids) ==
  LET more == {id \in UNION {Range(units[i].immediate_dependencies) :
                               i \in {j \in 1..Len(units) : units[j].self_id \in ids}} :
                 /\ id[1] \notin known_compilation_addresses
                 /\ \E i \in 1..Len(units) : units[i].self_id = id}
  IN  IF more \subseteq ids THEN ids ELSE UnpublishedReach(ids \cup more)

\* The root modules and the unpublished-address modules reachable from them
\* through imports of unpublished-address modules.
ReachedFromRoot == UnpublishedReach(RootOwnedIds)

\* The known compilation addresses the modules chosen by the test import.
KnownImportsOf(Chosen(_)) ==
  {id[1] : id \in UNION {Range(units[i].immediate_dependencies) :
                           i \in {j \in 1..Len(units) : Chosen(units[j])}}}
    \cap known_compilation_addresses

\* The closure C: the least set of known compilation addresses that holds
\* the ones imported by the modules reached from the root and the ones
\* imported by the compiled modules at an address of the set.
RECURSIVE PublishedClosure(_)
PublishedClosure(addrs) ==
  LET more == KnownImportsOf(LAMBDA u : u.self_id[1] \in addrs)
  IN  IF more \subseteq addrs THEN addrs ELSE PublishedClosure(addrs \cup more)

ClosureC == PublishedClosure(KnownImportsOf(LAMBDA u : u.self_id \in ReachedFromRoot))

\* C16: when the pruner has finished, kept_output_addresses is exactly the
\* image of the closure C under compilation_to_output.
C16_RetainedSetIsImageOfClosure ==
  ReturnedArtifact =>
    kept_output_addresses = {compilation_to_output[a] : a \in ClosureC}

\* The known compilation addresses a compiled unit imports.
KnownImports(unit) ==
  {id[1] : id \in Range(unit.immediate_dependencies)} \cap known_compilation_addresses

\* The modules of source dependencies: not root-owned, at an address that
\* is not a known compilation address.
SourceDependencyUnits ==
  {i \in 1..Len(units) :
     ~RootOwned(units[i]) /\ units[i].self_id[1] \notin known_compilation_addresses}

\* The canonical strings of the dependencies returned.
ReturnedDependencies == Range(Unwrap(result).output.dependencies)

CompiledAs(output_addr) ==
  {a \in known_compilation_addresses : compilation_to_output[a] = output_addr}

KnownImportsOfAll(batch) == UNION {KnownImports(batch[i]) : i \in 1..Len(batch)}

\* One turn of the root-rooted traversal: what it adds to
\* kept_output_addresses and to worklist_published_addresses comes from the
\* batch's imports of known compilation addresses, and a batch without such
\* imports leaves both, and visited_compilation_addresses, as they are.
SourceTurnFrame ==
  (pc = "source_traversal" /\ worklist_source_units # <<>>) =>
    LET imported == KnownImportsOfAll(worklist_source_units)
        n == Len(worklist_published_addresses)
    IN  /\ kept_output_addresses \subseteq kept_output_addresses'
        /\ kept_output_addresses' \ kept_output_addresses
             \subseteq {compilation_to_output[a] : a \in imported}
        /\ Len(worklist_published_addresses') >= n
        /\ SubSeq(worklist_published_addresses', 1, n) = worklist_published_addresses
        /\ Range(worklist_published_addresses') \ Range(worklist_published_addresses)
             \subseteq imported
        /\ imported = {} =>
             UNCHANGED <<kept_output_addresses, worklist_published_addresses,
                         visited_compilation_addresses>>

\* One turn of the closure: it leaves the worklist and the visited set of
\* the root-rooted traversal as they are, and what it adds to
\* kept_output_addresses and to its own worklist comes from the imports of
\* known compilation addresses by the modules at the address popped.
ClosureTurnFrame ==
  (SourceTraversalDone /\ worklist_published_addresses # <<>>) =>
    LET n == Len(worklist_published_addresses)
        addr == worklist_published_addresses[n]
        imported == KnownImportsOfAll(Filter(units, LAMBDA u : u.self_id[1] = addr))
    IN  /\ UNCHANGED <<worklist_source_units, visited_source_units>>
        /\ kept_output_addresses \subseteq kept_output_addresses'
        /\ kept_output_addresses' \ kept_output_addresses
             \subseteq {compilation_to_output[a] : a \in imported}
        /\ Range(worklist_published_addresses')
             \subseteq Range(SubSeq(worklist_published_addresses, 1, n - 1)) \cup imported

\* C19: an import of an address that is not a known compilation address
\* never changes kept_output_addresses or worklist_published_addresses, and
\* the closure never queues a module for the root-rooted traversal: every
\* step of either traversal adds to the retained set only output addresses
\* of known compilation addresses imported by the modules it looks at.
C19_UnknownAddressesAddNothing == [][SourceTurnFrame /\ ClosureTurnFrame]_vars

\* C19 happens: a compile has succeeded in which a root module imports a
\* module at an unpublished address, which was queued, and a module at a
\* compilation address the closure has expanded imports a module at an
\* unpublished address, which was never queued and whose own import of a
\* published dependency is not retained.
C19_Witness ==
  /\ ReturnedArtifact
  /\ \E r \in 1..Len(units) :
       /\ RootOwned(units[r])
       /\ \E id \in Range(units[r].immediate_dependencies) :
            id[1] \notin known_compilation_addresses /\ id \in visited_source_units
  /\ \E i, j \in 1..Len(units) :
       /\ units[i].self_id[1] \in visited_compilation_addresses
       /\ units[j].self_id \in Range(units[i].immediate_dependencies)
       /\ units[j].self_id[1] \notin known_compilation_addresses
       /\ units[j].self_id \notin visited_source_units
       /\ \E a \in KnownImports(units[j]) :
            compilation_to_output[a] \notin kept_output_addresses

(***************************************************************************)
(* Properties of the named-address map of the root package                 *)
(***************************************************************************)
\* The address table of the root manifest, empty when there is none.
RootAddressTable ==
  IF IsSome(RootManifestOf(files)) /\ IsSome(Unwrap(RootManifestOf(files)).addresses)
    THEN Unwrap(Unwrap(RootManifestOf(files)).addresses)
    ELSE EmptyMap

\* The symbols the root manifest gives a hexadecimal address.
RootDeclared ==
  {s \in DOMAIN RootAddressTable :
     IsSome(RootAddressTable[s]) /\ ~InvalidHex(Unwrap(RootAddressTable[s]))}

\* The named-address map handed to the compiler for the root package, and
\* the local map handed to it for the i-th dependency group.
MergedMap == all_targets[1].named_address_map

LocalMap(i) == all_targets[i + 1].named_address_map

\* The groups, by position in the caller's array, whose local map binds s.
Binders(s) == {i \in 1..(Len(all_targets) - 1) : s \in DOMAIN LocalMap(i)}

FirstBinder(s) == CHOOSE i \in Binders(s) : \A j \in Binders(s) : i <= j

\* The fallback addresses of the framework symbols.
FrameworkFallback ==
  MapOf({<<s_std, Unwrap(parse_hex_address_to_bytes(h_1))>>,
         <<s_sui, Unwrap(parse_hex_address_to_bytes(h_2))>>})

\* C20: the named-address map handed to the compiler for the root package
\* binds a symbol to the root manifest's address when the manifest gives it
\* one, otherwise to the address of the first group, in the caller's order,
\* whose local map binds it, otherwise, for std and sui, to 0x1 and 0x2, and
\* binds nothing else; std and sui are always bound.
C20_RootThenFirstGroupThenFallback ==
  all_targets # <<>> =>
    /\ all_targets[1].name[1][1] = s_root
    /\ Len(all_targets) = Len(dep_packages) + 1
    /\ DOMAIN MergedMap
         = RootDeclared
           \cup UNION {DOMAIN LocalMap(i) : i \in 1..(Len(all_targets) - 1)}
           \cup {s_std, s_sui}
    /\ \A s \in DOMAIN MergedMap :
         MergedMap[s] =
           IF s \in RootDeclared
             THEN Unwrap(parse_hex_address_to_bytes(Unwrap(RootAddressTable[s])))
           ELSE IF Binders(s) # {} THEN LocalMap(FirstBinder(s))[s]
           ELSE FrameworkFallback[s]

\* C20 happens: the targets have been assembled for a call in which a group
\* binds a symbol of the root manifest to another address, two groups bind
\* one symbol to different addresses, a group binds std to an address that
\* is not the fallback, and nobody binds sui.
C20_Witness ==
  /\ all_targets # <<>>
  /\ \E s \in RootDeclared : \E i \in Binders(s) : LocalMap(i)[s] # MergedMap[s]
  /\ \E s \in DOMAIN MergedMap \ RootDeclared :
       \E i, j \in Binders(s) : LocalMap(i)[s] # LocalMap(j)[s]
  /\ Binders(s_std) # {} /\ MergedMap[s_std] # FrameworkFallback[s_std]
  /\ Binders(s_sui) = {} /\ MergedMap[s_sui] = FrameworkFallback[s_sui]

(***************************************************************************)
(* Properties of the binder                                                *)
(***************************************************************************)
\* The dependency loop has bound every group.
BinderDone == pc \notin {"idle", "options", "setup_vfs", "root_package"}
                /\ Len(dep_package_paths) = Len(dep_packages)

\* The compilation address of a group, if it is determined.
CompilationAddressOf(pkg_group) == DependencyBindings(pkg_group).fallback_dep_id

\* The output address a group asks for: its publishedIdForOutput when that
\* parses, else its compilation address.
AskedOutputAddress(pkg_group) ==
  IF IsSome(ParseOptionalAddress(pkg_group.published_id_for_output))
    THEN Unwrap(ParseOptionalAddress(pkg_group.published_id_for_output))
    ELSE Unwrap(CompilationAddressOf(pkg_group))

\* C21: after the binder has run, for every group with a determined
\* compilation address c, c is a known compilation address and
\* compilation_to_output maps c to the group's output address (its valid
\* publishedIdForOutput, else c itself).
C21_EveryGroupMapsToItsOutput ==
  BinderDone =>
    \A i \in 1..Len(dep_packages) :
      IsSome(CompilationAddressOf(dep_packages[i]))
        => LET c == Unwrap(CompilationAddressOf(dep_packages[i]))
           IN  /\ c \in known_compilation_addresses
               /\ c \in DOMAIN compilation_to_output
               /\ compilation_to_output[c] = AskedOutputAddress(dep_packages[i])

\* The zero address.
ZeroAddress == [i \in 1..AddressLength |-> 0]

\* The groups that give no addressMapping and whose manifest parses.
ManifestGroups ==
  {i \in 1..Len(dep_packages) :
     ~IsSome(dep_packages[i].address_mapping) /\ IsSome(GroupManifest(dep_packages[i]))}

\* The address the manifest's table gives the group's own name, and the
\* manifest's published-at address; None when absent or unparsable.
OwnEntry(pkg_group) ==
  LET manifest == Unwrap(GroupManifest(pkg_group))
  IN  IF IsSome(manifest.addresses) /\ pkg_group.name \in DOMAIN Unwrap(manifest.addresses)
           /\ IsSome(Unwrap(manifest.addresses)[pkg_group.name])
        THEN parse_hex_address_to_bytes(Unwrap(Unwrap(manifest.addresses)[pkg_group.name]))
        ELSE None

PublishedAt(pkg_group) ==
  LET manifest == Unwrap(GroupManifest(pkg_group))
  IN  IF IsSome(manifest.package.published_at)
        THEN parse_hex_address_to_bytes(Unwrap(manifest.package.published_at))
        ELSE None

\* C22: the compilation address of a group without addressMapping is the
\* manifest's own-name entry when that is present and not the zero address,
\* and otherwise the manifest's published-at address when there is one.
C22_OwnNonZeroElsePublishedAt ==
  BinderDone =>
    \A i \in ManifestGroups :
      LET g == dep_packages[i]
      IN  IF IsSome(OwnEntry(g)) /\ Unwrap(OwnEntry(g)) # ZeroAddress
            THEN CompilationAddressOf(g) = OwnEntry(g)
          ELSE IsSome(PublishedAt(g)) => CompilationAddressOf(g) = PublishedAt(g)

\* The call is about to invoke Compiler::from_package_paths: every group is
\* bound and all_targets is assembled.
CompilerInvoked == pc = "compiler"

\* The groups that give an addressMapping.
MappingGroups ==
  {i \in 1..Len(dep_packages) : IsSome(dep_packages[i].address_mapping)}

\* C23 as stated: the local named-address map of a group that gives an
\* addressMapping has every entry of the mapping, and the group's
\* compilation address is determined exactly when the mapping has an entry
\* for the group's own name.
C23_MappingVerbatim ==
  CompilerInvoked =>
    \A i \in MappingGroups :
      LET g == dep_packages[i]
          mapping == Unwrap(g.address_mapping)
      IN  /\ DOMAIN LocalMap(i) = DOMAIN mapping
          /\ IsSome(CompilationAddressOf(g)) <=> g.name \in DOMAIN mapping

\* C23 amended: the local named-address map of a group that gives an
\* addressMapping has exactly the entries of the mapping whose text parses
\* as an address, with that address; its compilation address is the address
\* of the entry for its own name when that entry is there and parses, and
\* undetermined otherwise; its edition is the one the group gives, Legacy
\* when it gives none; the manifest's address entries, edition and
\* published-at have no effect.
C23_MappingReplacesManifest ==
  CompilerInvoked =>
    \A i \in MappingGroups :
      LET g == dep_packages[i]
          mapping == Unwrap(g.address_mapping)
          parsed == {k \in DOMAIN mapping : ~InvalidHex(mapping[k])}
      IN  /\ DOMAIN LocalMap(i) = parsed
          /\ \A k \in parsed :
               LocalMap(i)[k] = Unwrap(parse_hex_address_to_bytes(mapping[k]))
          /\ CompilationAddressOf(g)
               = (IF g.name \in parsed THEN Some(LocalMap(i)[g.name]) ELSE None)
          /\ EditionOf(all_targets[i + 1])
               = (IF IsSome(g.edition) THEN parse_edition(Unwrap(g.edition))
                  ELSE "LEGACY")
          /\ g.name \notin parsed
               => /\ known_compilation_addresses
                      = {Unwrap(CompilationAddressOf(dep_packages[j])) :
                           j \in {k \in 1..Len(dep_packages) \ {i} :
                                    IsSome(CompilationAddressOf(dep_packages[k]))}}
                  /\ ~IsSome(g.published_id_for_output)
                       => Len(dependency_ids) < Len(dep_packages)

\* C23 happens: the compiler is about to be invoked with a group whose
\* addressMapping has no entry for its own name and whose manifest parses
\* and gives its own name an address, other names, an edition and a
\* published-at address.
C23_Witness ==
  /\ CompilerInvoked
  /\ \E i \in MappingGroups :
       LET g == dep_packages[i]
       IN  /\ g.name \notin DOMAIN Unwrap(g.address_mapping)
           /\ IsSome(GroupManifest(g))
           /\ IsSome(OwnEntry(g)) /\ IsSome(PublishedAt(g))
           /\ IsSome(Unwrap(GroupManifest(g)).package.edition)
           /\ DOMAIN Unwrap(Unwrap(GroupManifest(g)).addresses)
                \cap DOMAIN LocalMap(i) = {}
           /\ ~IsSome(CompilationAddressOf(g))

\* The is_dependency flag of the PackageConfig of a PackagePaths.
IsDependencyOf(package_paths) == Unwrap(package_paths.name)[2].is_dependency

\* C24: when compile invokes the compiler service, every package group it
\* passes, the root and every dependency, has is_dependency = false.
C24_NoGroupIsDependency ==
  CompilerInvoked =>
    \A i \in 1..Len(all_targets) : ~IsDependencyOf(all_targets[i])

\* The file map of the i-th package group passed to the compiler: the root's
\* for the first, the dependency groups' after it.
GroupFiles(i) == IF i = 1 THEN files ELSE dep_packages[i - 1].files

\* C25: the file list of every package group passed to the compiler, the
\* root and each dependency, has exactly the group's source files (*.move,
\* never the manifest), the files outside tests/ before the files inside
\* it and in lexical order of the path bytes within each part.
C25_FileListsFilteredAndSorted ==
  CompilerInvoked =>
    \A i \in 1..Len(all_targets) :
      all_targets[i].paths
        = SortSet({name \in DOMAIN GroupFiles(i) : IsSourcePath(name)}, TargetLess)

(***************************************************************************)
(* Properties of the binder's tables                                       *)
(***************************************************************************)
\* The dependency loop has started: some groups, none or all, are bound.
BinderRunning == pc \notin {"idle", "options", "setup_vfs", "root_package"}

\* The filter of the dependency ids has run.
Filtered == pc \in {"order", "serialize"} \/ ReturnedArtifact

\* C30: after the binder has processed any sequence of dependency groups
\* the domain of compilation_to_output is the set of known compilation
\* addresses and every value of the map is in dependency_ids, so an import
\* of a known compilation address always has an output address, and the
\* dependencies emitted are the kept output addresses in ascending order.
C30_TablesAgree ==
  /\ BinderRunning =>
       /\ DOMAIN compilation_to_output = known_compilation_addresses
       /\ \A a \in DOMAIN compilation_to_output :
            Contains(dependency_ids, compilation_to_output[a])
       /\ kept_output_addresses \subseteq Range(dependency_ids)
  /\ Filtered => dependency_ids_vec = SortSet(kept_output_addresses, AddrLess)

\* C30 happens: a call has returned an artifact for groups of which one has
\* an output address that is not its compilation address; two output
\* addresses were kept and a dependency id was filtered out.
C30_Witness ==
  /\ ReturnedArtifact
  /\ \E a \in DOMAIN compilation_to_output : compilation_to_output[a] # a
  /\ Cardinality(kept_output_addresses) >= 2
  /\ Len(dependency_ids) > Len(dependency_ids_vec)
  /\ Len(dependency_ids_vec) = Cardinality(kept_output_addresses)

(***************************************************************************)
(* Properties of the two traversals                                        *)
(***************************************************************************)
\* The module ids of a worklist of units.
QueuedIds(worklist) == [i \in 1..Len(worklist) |-> worklist[i].self_id]

\* No element of a sequence is in it twice.
NoRepeat(q) == \A i, j \in 1..Len(q) : q[i] = q[j] => i = j

\* The step seeds the root-rooted traversal.
SeedTurn == pc = "seed" /\ pc' = "source_traversal"

\* The step is a turn of one of the two loops.
TraversalTurn ==
  /\ pc \in {"source_traversal", "published_closure"}
  /\ pc' \in {"source_traversal", "published_closure"}

\* The step is a turn of the loop over worklist_source_units: the batch is
\* taken off, so what the worklist holds after it was queued by it.
SourceTurn == TraversalTurn /\ pc = "source_traversal" /\ worklist_source_units # <<>>

\* The compilation addresses the step pushes: what worklist_published_addresses
\* holds after it beyond what it held and the step did not pop.
PushedAddresses ==
  LET held == IF SourceTurn THEN Len(worklist_published_addresses)
              ELSE Len(worklist_published_addresses) - 1
  IN  SubSeq(worklist_published_addresses', held + 1,
             Len(worklist_published_addresses'))

\* A module id is queued only when it was not visited, and is visited from
\* then on; so is a compilation address.
QueuedOnce ==
  /\ SeedTurn =>
       /\ NoRepeat(QueuedIds(worklist_source_units'))
       /\ visited_source_units' = Range(QueuedIds(worklist_source_units'))
       /\ visited_compilation_addresses' = {}
       /\ worklist_published_addresses' = <<>>
  /\ TraversalTurn =>
       /\ visited_source_units \subseteq visited_source_units'
       /\ visited_compilation_addresses \subseteq visited_compilation_addresses'
       /\ NoRepeat(PushedAddresses)
       /\ \A a \in Range(PushedAddresses) :
            a \notin visited_compilation_addresses /\ a \in visited_compilation_addresses'
       /\ SourceTurn =>
            /\ NoRepeat(QueuedIds(worklist_source_units'))
            /\ \A id \in Range(QueuedIds(worklist_source_units')) :
                 id \notin visited_source_units /\ id \in visited_source_units'
       /\ ~SourceTurn => worklist_source_units' = worklist_source_units

\* C29: both traversals terminate on every import graph, also one with
\* cycles among source modules or among published addresses: a call that
\* has seeded the root-rooted traversal gets to the filter of the dependency
\* ids; each module id is queued for the root-rooted traversal at most once
\* and each compilation address for the published closure at most once.
C29_TraversalsTerminate ==
  /\ [][QueuedOnce]_vars
  /\ (pc = "seed") ~> (pc = "order")

\* C29 happens: both traversals are over for a root that uses a source
\* module on an import cycle and a published package on an import cycle;
\* both modules of the one and both addresses of the other were visited.
C29_Witness ==
  /\ pc = "order"
  /\ \E u, v \in Range(units) :
       /\ u.self_id # v.self_id
       /\ u.self_id[1] \notin known_compilation_addresses
       /\ ~IsRootUnit(u, root_package_name)
       /\ {u.self_id, v.self_id} \subseteq visited_source_units
       /\ v.self_id \in Range(u.immediate_dependencies)
       /\ u.self_id \in Range(v.immediate_dependencies)
  /\ \E u, v \in Range(units) :
       /\ u.self_id[1] # v.self_id[1]
       /\ {u.self_id[1], v.self_id[1]} \subseteq visited_compilation_addresses
       /\ v.self_id \in Range(u.immediate_dependencies)
       /\ u.self_id \in Range(v.immediate_dependencies)

(***************************************************************************)
(* Properties of parse_hex_address_to_bytes                                *)
(***************************************************************************)
\* The digits of a text when one leading 0x marker is all that is taken off.
WithoutMarker(s) == IF StartsWith(s, <<"0", "x">>) THEN SubSeq(s, 3, Len(s)) ELSE s

\* The digits of a text when the white space around it and every leading 0x
\* are taken off.
CleanDigits(s) == TrimStartMatches(Trim(s), <<"0", "x">>)

\* The j-th of the 2 * 32 nibbles of digits written right-aligned, zeros to
\* their left.
Nibble(digits, j) ==
  LET k == j - (2 * AddressLength - Len(digits))
  IN  IF k < 1 THEN 0 ELSE HexVal(digits[k])

\* The address that digits denote: none for no digit, for a character that
\* is no hexadecimal digit, and for more bytes than an address has.
Denoted(digits) ==
  IF Len(digits) = 0 \/ \E i \in 1..Len(digits) : ~IsHexDigit(digits[i]) THEN None
  ELSE IF (Len(digits) + 1) \div 2 > AddressLength THEN None
  ELSE Some([i \in 1..AddressLength |->
               16 * Nibble(digits, 2 * i - 1) + Nibble(digits, 2 * i)])

\* C26 as stated: parse_hex_address_to_bytes returns, for every text with or
\* without a leading 0x marker, absent when the text has no digit, has a
\* character that is no hexadecimal digit or decodes to more than 32 bytes,
\* and else the decoded bytes of the text (odd length padded with one zero
\* nibble on the left) padded with zero bytes on the left to 32 bytes; two
\* texts for the same number that parse give byte-equal addresses.
C26_ParsesHexWithOptionalMarker ==
  /\ parse_pc # "first" => addr_bytes = Denoted(WithoutMarker(addr_str))
  /\ parse_pc = "returned" /\ IsSome(addr_bytes) /\ IsSome(twin_bytes)
       => addr_bytes = twin_bytes

\* C26 amended: the same of the text that is left when the white space
\* around the text and every leading repetition of 0x have been taken off.
C26_ParsesCleanedHex ==
  /\ parse_pc # "first" => addr_bytes = Denoted(CleanDigits(addr_str))
  /\ parse_pc = "returned" /\ IsSome(addr_bytes) /\ IsSome(twin_bytes)
       => addr_bytes = twin_bytes

\* C26 happens: a text of an odd number of digits, one short of the width of
\* an address, and a second text of other digits for the same number have
\* both been parsed to the same address, which is not zero.
C26_Witness ==
  /\ parse_pc = "returned"
  /\ Len(CleanDigits(addr_str)) = 2 * AddressLength - 1
  /\ CleanDigits(twin_str) # CleanDigits(addr_str)
  /\ IsSome(addr_bytes)
  /\ addr_bytes = twin_bytes
  /\ \E i \in 1..AddressLength : Unwrap(addr_bytes)[i] # 0

(***************************************************************************)
(* Properties of test                                                      *)
(***************************************************************************)
\* The package of the module of a test plan: the package name of the unit
\* compiled for it.
PlanPackage(plan) ==
  (CHOOSE i \in 1..Len(test_units) : test_units[i].self_id = plan.module_id)

\* A TestPlan has been handed to the unit-test harness.
HarnessInvoked == test_pc \in {"run", "done"} /\ IsSome(test_plan)

\* C27: test() hands the unit-test harness no test plan whose module belongs
\* to a dependency package, framework or not: every plan handed over is of
\* a module of the root package.
C27_OnlyRootTestsRun ==
  HarnessInvoked =>
    \A k \in 1..Len(Unwrap(test_plan).tests) :
      test_units[PlanPackage(Unwrap(test_plan).tests[k])].package_name = Some(s_root)

\* Both compile and test have handed their targets to the compiler, for the
\* same filesJson and dependenciesJson.
BothInvoked ==
  /\ pc = "done" /\ Len(all_targets) > 0
  /\ test_pc \notin {"idle", "setup_vfs"} /\ Len(test_all_targets) > 0

\* C28: for the same filesJson and dependenciesJson the merged root map and
\* the local named-address map of every dependency that test hands to the
\* compiler equal the ones compile hands to it.
C28_TestBindsLikeCompile ==
  BothInvoked =>
    /\ Len(test_all_targets) = Len(all_targets)
    /\ \A i \in 1..Len(all_targets) :
         test_all_targets[i].named_address_map = all_targets[i].named_address_map

(***************************************************************************)
(* Properties of compute_manifest_digest                                   *)
(***************************************************************************)
\* Both texts of the pair have been digested.
DigestsCompared == digest_pc = "returned" /\ IsSome(first_digest)

\* A JSON object of the shape {deps: [{name, ...}]}.
HasDepsShape(text) ==
  /\ text.kind = "object"
  /\ \A i \in 1..Len(text.deps) : "name" \in DOMAIN text.deps[i]

\* Two deps arrays that differ in the value of one of the fields name, git,
\* rev, subdir, local, useEnvironment of one entry, and in nothing else.
OneFieldChanged(d1, d2) ==
  /\ Len(d1) = Len(d2)
  /\ \E i \in 1..Len(d1) :
       /\ DOMAIN d1[i] = DOMAIN d2[i]
       /\ \E k \in DOMAIN d1[i] \cap {"name", "git", "rev", "subdir", "local", "useEnvironment"} :
            /\ d1[i][k] # d2[i][k]
            /\ d2 = [d1 EXCEPT ![i] = [d1[i] EXCEPT ![k] = d2[i][k]]]

\* A String of 64 upper-case hexadecimal digits.
IsDigestText(text) ==
  /\ Len(text) = 64
  /\ \A i \in 1..Len(text) : \E j \in 1..16 : UpperHex[j] = text[i]

\* C6: for two inputs of the shape {deps: [{name, ...}]}, the digests are
\* equal when the deps arrays are reorderings of each other, and differ when
\* the arrays differ in the value of one field of one entry.
C6_ReorderingInvariantFieldSensitive ==
  (DigestsCompared /\ HasDepsShape(digest_pair[1]) /\ HasDepsShape(digest_pair[2]))
    => /\ SameGroups(digest_pair[1].deps, digest_pair[2].deps)
            => manifest_digest = first_digest
       /\ OneFieldChanged(digest_pair[1].deps, digest_pair[2].deps)
            => manifest_digest # first_digest

====
